---- MODULE Spec2Model ----
(***************************************************************************)
(* State-machine model of the VJ/DJ pipeline in                            *)
(* docs/starlitetv_backups/vj_pipeline.py: the Conductor (main loop), the  *)
(* Feeder thread, the Music Worker threads and the streamer (Encoder)      *)
(* processes, with the staging directory, the feed queue and the audio     *)
(* FIFO they share.                                                        *)
(***************************************************************************)
EXTENDS Integers, Sequences, FiniteSets, TLC

(* ---------------------------------------------------------------------- *)
(* Bounds of the model                                                     *)
(* ---------------------------------------------------------------------- *)
\* Render attempts explored (seq is never reset, so this bounds the run).
MaxSeq == 8
\* Capacity of feed_queue, scaled down from queue.Queue(maxsize=20); it
\* stays >= prebuffer_size so that a flush into an empty queue never blocks.
QueueMaxsize == 4
\* Faults injected in one run: failed renders, exceptions in the loop body,
\* Encoders that hang or die, mkfifo errors, pauses for lack of disk space.
MaxFaults == 1
\* Sign-offs (off-air periods) in one run.
MaxSignOffs == 1
\* Shutdown signals (SIGTERM, SIGINT) delivered in one run.
MaxSignals == 1
\* Durations, in seconds, of the rendered fragments (clip_dur * speed of a
\* clip, bumper_dur of a bumper): the random choices of pick_clip and
\* random.choice are fixed per sequence number, and cycle through this list.
Durations == <<2, 1, 3>>

(* ---------------------------------------------------------------------- *)
(* Program constants                                                       *)
(* ---------------------------------------------------------------------- *)
WATCHDOG_TIMEOUT == 90
prebuffer_size == 4
MAX_STAGING_FILES == 30
BROADCAST_START == 10
BROADCAST_END == 2
\* Granularity of the wall clock, in seconds: one tick makes a heartbeat
\* stale.
TimeUnit == WATCHDOG_TIMEOUT + 1
\* bumpers.min_interval_minutes * 60 of the configuration under test.
BumperInterval == TimeUnit

Hours == 0..23
None == 0
\* ret outside queue_clip, start_streamer_and_flush and recover_streamer.
NoRet == "top"
NoFrag == [seq |-> 0, pts |-> 0, dur |-> 0]
NoItem == [frag |-> NoFrag, proc |-> None]

VARIABLES
    pc,             \* position of the Conductor in main()
    ret,            \* where queue_clip / recover_streamer return to
    seq,            \* running sequence number
    cumulative_ts,  \* running PTS offset
    streamer_proc,  \* Encoder handle held by the Conductor (None = 0)
    prebuffer,      \* pre-buffer list of fragments
    cur,            \* fragment just rendered (ts_path), NoFrag if none
    flushIdx,       \* position of the flush loop in prebuffer
    feedAge,        \* time.time() - last_feed_time, saturating
    bumperSet,      \* last_bumper_time > 0
    bumperAge,      \* time.time() - last_bumper_time, saturating
    feed_queue,     \* queue of (fragment, encoder handle) items
    staging,        \* sequence numbers of the clip_NNNNNN.ts files on disk
    fifo,           \* what is at audio_fifo_path: "fifo", "missing" or "file"
    procs,          \* every Encoder process spawned so far
    workers,        \* every Music Worker thread started so far
    music_thread,   \* index of the thread held in music_thread (None = 0)
    fpc,            \* position of the Feeder
    fitem,          \* item the Feeder holds
    faults,         \* faults injected so far
    signoffs,       \* sign-offs so far
    lastFed,        \* history: sequence number of the last fragment written
                    \* to any Encoder (0 = none yet)
    delivered,      \* history: the last two fragments written to the
                    \* Encoder the Conductor holds
    expect,         \* history: what is left of the pre-buffer of the last
                    \* live transition after one fragment is struck off for
                    \* every item the Feeder has dequeued since
    recSnap,        \* history: the pipeline state in which recover_streamer
                    \* last returned, as long as the Conductor has done
                    \* nothing since but go back into recover_streamer
    paused,         \* history: the value of seq when wait_for_disk_space
                    \* slept, if it has since the last write to the Encoder
    signals,        \* SIGTERM / SIGINT delivered so far
    now,            \* datetime.datetime.now(), in seconds since midnight
    cpc,            \* position in the sign-off / sign-on path of an iteration
    wait_secs,      \* wait_secs of wait_for_broadcast
    dayparts,       \* cfg["dayparts"], a list of (start_hour, end_hour)
    daypart,        \* index in dayparts of the daypart that
                    \* get_current_daypart returned (None = 0)
    wpc,            \* position of the Music Worker in music_worker
    stop_event,     \* stop_event.is_set()
    fifo_fd,        \* the worker's handle on the FIFO: none, open, closed
    decoder,        \* proc of the track: none, running, eof
    reader,         \* the reading end of the FIFO: absent, reading,
                    \* stalled, gone
    playlist,       \* tracks left in the shuffled playlist
    music_files,    \* the library of the current daypart is not empty
    new_daypart,    \* get_daypart_music names another daypart than
                    \* current_daypart
    wseen,          \* history: what the worker has been through
    bpc,            \* position in the iteration of the bumper check
    btime,          \* time.time()
    last_bumper_time,
    min_interval_minutes,   \* bumpers.min_interval_minutes
    bdone,          \* history: end of the render of the last bumper (0 = none)
    bgap,           \* history: from the end of the render of the last
                    \* bumper but one to the start of the render of the last
    bseen,          \* history: what has happened since the last bumper
    bbetween,       \* history: what happened between the last two bumpers
    kpc,            \* position in the clip selection of an iteration
    clock_hour,     \* datetime.datetime.now().hour
    clip_files,     \* the clips found in clips_dir at start-up
    clips_dayparts, \* cfg["clips_dayparts"]: the dayparts with an override
                    \* directory
    override_dirs,  \* the clips in the override directory of each daypart
    clips_cache,    \* _clips_cache
    active_clips,   \* the clip set that get_daypart_clips returned
    prev_dp,        \* history: the daypart of the selection before
    kseen,          \* history: what the selections have been through
    ppc,            \* position in pick_clip
    clip_dur,       \* duration of the clip that random.choice picked
    min_dur,        \* mixing.clip_min_duration
    max_dur,        \* mixing.clip_max_duration
    picked          \* what pick_clip returned

vars == <<pc, ret, seq, cumulative_ts, streamer_proc, prebuffer, cur, flushIdx,
          feedAge, bumperSet, bumperAge, feed_queue, staging, fifo, procs,
          workers, music_thread, fpc, fitem, faults, signoffs, lastFed,
          delivered, expect, recSnap, paused, signals, now, cpc, wait_secs,
          dayparts, daypart, wpc, stop_event, fifo_fd, decoder, reader,
          playlist, music_files, new_daypart, wseen, bpc, btime,
          last_bumper_time, min_interval_minutes, bdone, bgap, bseen,
          bbetween, kpc, clock_hour, clip_files, clips_dayparts,
          override_dirs, clips_cache, active_clips, prev_dp, kseen, ppc,
          clip_dur, min_dur, max_dur, picked>>

condVars == <<pc, ret, seq, cumulative_ts, streamer_proc, prebuffer, cur,
              flushIdx, bumperSet>>
feederVars == <<fpc, fitem, lastFed, delivered, expect>>
timeVars == <<feedAge, bumperAge>>
budget == <<faults, signoffs>>
histVars == <<recSnap, paused>>
clockVars == <<now, cpc, wait_secs, dayparts, daypart>>
\* What the steps of the pipeline that are not part of a shutdown leave alone.
musicVars == <<wpc, stop_event, fifo_fd, decoder, reader, playlist,
              music_files, new_daypart, wseen>>
bumperVars == <<bpc, btime, last_bumper_time, min_interval_minutes, bdone,
               bgap, bseen, bbetween>>
clipVars == <<kpc, clock_hour, clip_files, clips_dayparts, override_dirs,
             clips_cache, active_clips, prev_dp, kseen>>
pickVars == <<ppc, clip_dur, min_dur, max_dur, picked>>
auxVars == <<clockVars, musicVars, bumperVars, clipVars, pickVars>>
clockRest == <<musicVars, bumperVars, clipVars, pickVars>>
musicRest == <<clockVars, bumperVars, clipVars, pickVars>>
bumperRest == <<clockVars, musicVars, clipVars, pickVars>>
clipRest == <<clockVars, musicVars, bumperVars, pickVars>>
pickRest == <<clockVars, musicVars, bumperVars, clipVars>>
restVars == <<signals, auxVars>>
mainVars == <<condVars, feederVars, timeVars, feed_queue, staging, fifo, procs,
              workers, music_thread, budget, histVars, signals>>

(* ---------------------------------------------------------------------- *)
(* Helpers                                                                 *)
(* ---------------------------------------------------------------------- *)
Min(a, b) == IF a < b THEN a ELSE b

LastTwo(q) == IF Len(q) <= 2 THEN q ELSE SubSeq(q, Len(q) - 1, Len(q))
Rest(q) == IF q = <<>> THEN q ELSE Tail(q)

MaxFeedAge == TimeUnit
MaxBumperAge == BumperInterval

\* A window that opens one hour late.
is_on_airLate(hour) == hour > BROADCAST_START \/ hour < BROADCAST_END

is_on_air(hour) == hour >= BROADCAST_START \/ hour < BROADCAST_END

RecoveryPcs == {"rec_kill", "rec_join", "rec_drain", "rec_fifo", "rec_done"}
OffAirPcs == {"offair_join", "offair_teardown", "offair_sleep"}
\* Where cleanup can block: in feed_queue.put(None) (pc = "cl_put") and in
\* stdin.close() (pc = "cl_term"). A hung Encoder stays hung until it is
\* killed, and cleanup does not kill: it does not leave the close.
CleanupPcs == {"cl_put", "cl_term"}

\* The mode of the spec's PipelineState, which the code derives from
\* streamer_proc and the position of the main loop.
mode == IF pc \in RecoveryPcs THEN "recovering"
        ELSE IF pc \in OffAirPcs THEN "off-air"
        ELSE IF pc \in CleanupPcs \union {"exited"} THEN "shutdown"
        ELSE IF streamer_proc = None THEN "prebuffer" ELSE "live"

count_staging_files == Cardinality(staging)

\* Process states: "running" consumes its inputs; "hung" has stopped
\* consuming; "killed" got SIGKILL but had not exited when wait() timed out;
\* "dead" has exited.
Alive(p) == procs[p].st \in {"running", "hung", "killed"}
AliveProcs == {p \in 1..Len(procs) : Alive(p)}

WorkerAlive(w) == workers[w].st \in {"opening", "playing"}
AliveWorkers == {w \in 1..Len(workers) : WorkerAlive(w)}

\* A worker that cannot observe its stop event: blocked in open() with no
\* reader on its FIFO, or blocked in fifo_fd.write() to an Encoder that has
\* stopped reading.
WorkerBlocked(w) ==
    \/ workers[w].st = "opening"
    \/ /\ workers[w].st = "playing"
       /\ workers[w].enc # None
       /\ procs[workers[w].enc].st \in {"hung", "killed"}

\* A thread that has exited and a process that has exited.
\* wait_for_disk_space has not slept since the last write to the Encoder.
NoPause == 0 - 1

\* The pipeline state that recover_streamer works on.
PipelineState ==
    [streamer_proc |-> streamer_proc, music_thread |-> music_thread,
     feed_queue |-> feed_queue, staging |-> staging, fifo |-> fifo,
     cumulative_ts |-> cumulative_ts, prebuffer |-> prebuffer, seq |-> seq,
     faults |-> faults]

\* No recover_streamer has returned yet, or the loop has gone on since.
NoSnap ==
    [streamer_proc |-> None, music_thread |-> None, feed_queue |-> <<>>,
     staging |-> {}, fifo |-> "none", cumulative_ts |-> 0,
     prebuffer |-> <<>>, seq |-> 0, faults |-> 0]

Exited == [st |-> "exited", stop |-> FALSE, cur |-> FALSE, enc |-> None]
Dead == [st |-> "dead", fifo |-> FALSE]

\* os.unlink(audio_fifo_path): the threads that hold the old FIFO keep the
\* unlinked inode.
Unlinked(ws) ==
    [w \in 1..Len(ws) |->
        IF ws[w].st = "exited" THEN ws[w] ELSE [ws[w] EXCEPT !.cur = FALSE]]

\* main() creates the staging directory with exist_ok=True and removes
\* nothing from it: the *.ts files that an earlier run left behind are still
\* there. Their names are beyond the sequence numbers of this run, and
\* their number is such that, with the queue capacity of the model, the
\* staging guard can engage.
StaleFiles == {100 + i : i \in 1..(MAX_STAGING_FILES - prebuffer_size)}

(* ---------------------------------------------------------------------- *)
(* Initial state: main() up to the start of the main loop                  *)
(* ---------------------------------------------------------------------- *)
MainInit ==
    /\ pc = "top"
    /\ ret = "top"
    /\ seq = 0
    /\ cumulative_ts = 0
    /\ streamer_proc = None
    /\ prebuffer = <<>>
    /\ cur = NoFrag
    /\ flushIdx = 0
    /\ feedAge = 0
    /\ bumperSet = FALSE
    /\ bumperAge = 0
    /\ feed_queue = <<>>
    /\ staging \in {{}, StaleFiles}
    /\ fifo = "fifo"
    /\ procs = <<>>
    /\ workers = <<>>
    /\ music_thread = None
    /\ fpc = "get"
    /\ fitem = NoItem
    /\ faults = 0
    /\ signoffs = 0
    /\ delivered = <<>>
    /\ lastFed = 0
    /\ expect = <<>>
    /\ recSnap = NoSnap
    /\ paused = NoPause
    /\ signals = 0

\* The clock-reading functions are exercised on their own (ClockSpec below).
ClockIdle ==
    /\ now = 0
    /\ cpc = "idle"
    /\ wait_secs = 0
    /\ dayparts = <<>>
    /\ daypart = None

\* So is one Music Worker thread in detail (MusicSpec below).
MusicIdle ==
    /\ wpc = "idle"
    /\ stop_event = FALSE
    /\ fifo_fd = "none"
    /\ decoder = "none"
    /\ reader = "absent"
    /\ playlist = 0
    /\ music_files = FALSE
    /\ new_daypart = FALSE
    /\ wseen = {}

\* And so is the bumper check (BumperSpec below).
BumperIdle ==
    /\ bpc = "idle"
    /\ btime = 0
    /\ last_bumper_time = 0
    /\ min_interval_minutes = 0
    /\ bdone = 0
    /\ bgap = 0
    /\ bseen = {}
    /\ bbetween = {}

\* So is the clip selection (ClipsSpec below).
ClipsIdle ==
    /\ kpc = "idle"
    /\ clock_hour = 0
    /\ clip_files = {}
    /\ clips_dayparts = {}
    /\ override_dirs = <<>>
    /\ clips_cache = [daypart |-> None, files |-> {}, filled |-> FALSE]
    /\ active_clips = {}
    /\ prev_dp = None
    /\ kseen = {}

\* And pick_clip (PickSpec below).
PickIdle ==
    /\ ppc = "idle"
    /\ clip_dur = 0
    /\ min_dur = 0
    /\ max_dur = 0
    /\ picked = [start |-> 0, use_dur |-> 0, needs_loop |-> FALSE,
                 target |-> 0]

Init ==
    /\ MainInit
    /\ ClockIdle
    /\ MusicIdle
    /\ BumperIdle
    /\ ClipsIdle
    /\ PickIdle

(* ---------------------------------------------------------------------- *)
(* Wall clock                                                              *)
(* ---------------------------------------------------------------------- *)
\* TimeUnit seconds pass. The Conductor reads the clock at the top of an
\* iteration and at sign-on, so that is where the passing of time is taken,
\* and it sleeps in the staging guard.
Tick ==
    /\ \/ pc \in {"top", "offair_sleep"}
       \/ pc = "guards" /\ count_staging_files >= MAX_STAGING_FILES
    /\ UNCHANGED <<histVars, restVars>>
    /\ feedAge < MaxFeedAge \/ bumperAge < MaxBumperAge
    /\ feedAge' = Min(feedAge + TimeUnit, MaxFeedAge)
    /\ bumperAge' = Min(bumperAge + TimeUnit, MaxBumperAge)
    /\ UNCHANGED <<condVars, feederVars, feed_queue, staging, fifo, procs,
                   workers, music_thread, budget>>

(* ---------------------------------------------------------------------- *)
(* Feeder thread: feeder_worker / feed_streamer                            *)
(* ---------------------------------------------------------------------- *)
\* A get that takes the newest item instead of the oldest.
FeederGetNewest ==
    /\ fpc = "get"
    /\ UNCHANGED <<histVars, restVars>>
    /\ feed_queue # <<>>
    /\ fitem' = feed_queue[Len(feed_queue)]
    /\ feed_queue' = SubSeq(feed_queue, 1, Len(feed_queue) - 1)
    /\ expect' = IF fitem' = NoItem THEN expect ELSE Rest(expect)
    /\ fpc' = IF fitem' = NoItem THEN "done" ELSE "feed"
    /\ UNCHANGED <<condVars, timeVars, staging, fifo, procs, workers,
                   music_thread, budget, delivered, lastFed>>

\* item = feed_queue.get(); the None that cleanup enqueues ends the thread.
FeederGet ==
    /\ fpc = "get"
    /\ UNCHANGED <<histVars, restVars>>
    /\ feed_queue # <<>>
    /\ fitem' = Head(feed_queue)
    /\ feed_queue' = Tail(feed_queue)
    /\ expect' = IF fitem' = NoItem THEN expect ELSE Rest(expect)
    /\ fpc' = IF fitem' = NoItem THEN "done" ELSE "feed"
    /\ UNCHANGED <<condVars, timeVars, staging, fifo, procs, workers,
                   music_thread, budget, delivered, lastFed>>

\* A Feeder that writes to the Encoder that the Conductor holds, whatever
\* handle the item carries.
FeedOkCurrentHandle ==
    /\ fpc = "feed"
    /\ paused' = NoPause
    /\ UNCHANGED <<recSnap, restVars>>
    /\ fitem.frag.seq \in staging
    /\ streamer_proc # None
    /\ procs[streamer_proc].st = "running"
    /\ delivered' = LastTwo(Append(delivered, fitem.frag))
    /\ lastFed' = fitem.frag.seq
    /\ feedAge' = 0
    /\ staging' = staging \ {fitem.frag.seq}
    /\ fitem' = NoItem
    /\ fpc' = "get"
    /\ UNCHANGED <<condVars, bumperAge, feed_queue, fifo, procs, workers,
                   music_thread, budget, expect>>

\* feed_streamer returns True (the file was read and written to proc.stdin),
\* the heartbeat is updated and the file is unlinked.
FeedOk ==
    /\ fpc = "feed"
    /\ paused' = NoPause
    /\ UNCHANGED <<recSnap, restVars>>
    /\ fitem.frag.seq \in staging
    /\ procs[fitem.proc].st = "running"
    /\ delivered' = LastTwo(Append(delivered, fitem.frag))
    /\ lastFed' = fitem.frag.seq
    /\ feedAge' = 0
    /\ staging' = staging \ {fitem.frag.seq}
    /\ fitem' = NoItem
    /\ fpc' = "get"
    /\ UNCHANGED <<condVars, bumperAge, feed_queue, fifo, procs, workers,
                   music_thread, budget, expect>>

\* A Feeder that leaves the file of a failed write in staging.
FeedFailKeepsFile ==
    /\ fpc = "feed"
    /\ UNCHANGED <<histVars, restVars>>
    /\ \/ fitem.frag.seq \notin staging
       \/ procs[fitem.proc].st = "dead"
    /\ staging' = staging
    /\ fitem' = NoItem
    /\ fpc' = "get"
    /\ UNCHANGED <<condVars, timeVars, feed_queue, fifo, procs, workers,
                   music_thread, budget, delivered, expect, lastFed>>

\* A Feeder that updates the heartbeat after a failed write too.
FeedFailBeats ==
    /\ fpc = "feed"
    /\ UNCHANGED <<histVars, restVars>>
    /\ \/ fitem.frag.seq \notin staging
       \/ procs[fitem.proc].st = "dead"
    /\ staging' = staging \ {fitem.frag.seq}
    /\ feedAge' = 0
    /\ fitem' = NoItem
    /\ fpc' = "get"
    /\ UNCHANGED <<condVars, bumperAge, feed_queue, fifo, procs, workers,
                   music_thread, budget, delivered, expect, lastFed>>

\* feed_streamer returns False: open() fails on a missing file, or the
\* write fails on the pipe of a dead Encoder (a hung Encoder blocks the
\* write). The file is unlinked all the same.
FeedFail ==
    /\ fpc = "feed"
    /\ UNCHANGED <<histVars, restVars>>
    /\ \/ fitem.frag.seq \notin staging
       \/ procs[fitem.proc].st = "dead"
    /\ staging' = staging \ {fitem.frag.seq}
    /\ fitem' = NoItem
    /\ fpc' = "get"
    /\ UNCHANGED <<condVars, timeVars, feed_queue, fifo, procs, workers,
                   music_thread, budget, delivered, expect, lastFed>>

(* ---------------------------------------------------------------------- *)
(* Encoder processes (the streamer FFmpeg), as the environment runs them   *)
(* ---------------------------------------------------------------------- *)
\* The Encoder opens its second input, the audio FIFO, for reading; the
\* open completes when a writer is waiting, and completes the writer's open.
EncoderOpenFifo(p) ==
    /\ procs[p].st = "running"
    /\ UNCHANGED <<histVars, restVars>>
    /\ ~procs[p].fifo
    /\ fifo = "fifo"
    /\ \E w \in 1..Len(workers) : workers[w].st = "opening" /\ workers[w].cur
    /\ procs' = [procs EXCEPT ![p].fifo = TRUE]
    /\ workers' = [w \in 1..Len(workers) |->
                     IF workers[w].st = "opening" /\ workers[w].cur
                     THEN [workers[w] EXCEPT !.st = "playing", !.enc = p,
                                             !.cur = FALSE]
                     ELSE workers[w]]
    /\ UNCHANGED <<condVars, feederVars, timeVars, feed_queue, staging, fifo,
                   music_thread, budget>>

\* The Encoder stops consuming its inputs (for instance blocked on its
\* unread stdout/stderr pipes).
EncoderHang(p) ==
    /\ procs[p].st = "running"
    /\ UNCHANGED <<histVars, restVars>>
    /\ faults < MaxFaults
    /\ faults' = faults + 1
    /\ UNCHANGED signoffs
    /\ procs' = [procs EXCEPT ![p].st = "hung"]
    /\ UNCHANGED <<condVars, feederVars, timeVars, feed_queue, staging, fifo,
                   workers, music_thread>>

\* The Encoder exits on its own.
EncoderDie(p) ==
    /\ procs[p].st \in {"running", "hung"}
    /\ UNCHANGED <<histVars, restVars>>
    /\ faults < MaxFaults
    /\ faults' = faults + 1
    /\ UNCHANGED signoffs
    /\ procs' = [procs EXCEPT ![p] = Dead]
    /\ UNCHANGED <<condVars, feederVars, timeVars, feed_queue, staging, fifo,
                   workers, music_thread>>

\* An Encoder that outlived the wait after its SIGKILL exits at last.
EncoderExitKilled(p) ==
    /\ procs[p].st = "killed"
    /\ UNCHANGED <<histVars, restVars>>
    /\ procs' = [procs EXCEPT ![p] = Dead]
    /\ UNCHANGED <<condVars, feederVars, timeVars, feed_queue, staging, fifo,
                   workers, music_thread, budget>>

\* streamer_proc.kill() followed by wait(timeout): a process that is running
\* is gone when wait returns; for a process that is stuck the wait can time
\* out (TimeoutExpired is caught) and the process is still there.
KillOutcomes(p) ==
    IF p = None \/ ~Alive(p) THEN {procs}
    ELSE IF procs[p].st = "running"
    THEN {[procs EXCEPT ![p] = Dead]}
    ELSE {[procs EXCEPT ![p] = Dead], [procs EXCEPT ![p].st = "killed"]}

(* ---------------------------------------------------------------------- *)
(* Music Worker threads: music_worker                                      *)
(* ---------------------------------------------------------------------- *)
\* The worker sees stop_event set (loop conditions at 258, 277, 303) and
\* leaves through the finally clause that closes the FIFO.
MusicExitOnStop(w) ==
    /\ workers[w].st = "playing"
    /\ UNCHANGED <<histVars, restVars>>
    /\ workers[w].stop
    /\ ~WorkerBlocked(w)
    /\ workers' = [workers EXCEPT ![w] = Exited]
    /\ UNCHANGED <<condVars, feederVars, timeVars, feed_queue, staging, fifo,
                   procs, music_thread, budget>>

\* fifo_fd.write raises BrokenPipeError once the reading Encoder is gone.
MusicBrokenPipe(w) ==
    /\ workers[w].st = "playing"
    /\ UNCHANGED <<histVars, restVars>>
    /\ workers[w].enc # None
    /\ procs[workers[w].enc].st = "dead"
    /\ workers' = [workers EXCEPT ![w] = Exited]
    /\ UNCHANGED <<condVars, feederVars, timeVars, feed_queue, staging, fifo,
                   procs, music_thread, budget>>

\* start_music: a fresh stop event and a fresh thread, which goes straight
\* into open(audio_fifo_path, "wb"). On a FIFO the open blocks until a
\* reader arrives; on a missing path it creates a regular file and returns.
NewWorker == [st |-> IF fifo = "fifo" THEN "opening" ELSE "playing",
              stop |-> FALSE, cur |-> (fifo = "fifo"), enc |-> None]

\* stop_music, first half: the is_alive test and music_stop_event.set();
\* the join follows at pc = join, and with no live thread stop_music is
\* over and the caller goes on at next.
StopMusicSet(join, next) ==
    IF music_thread # None /\ WorkerAlive(music_thread)
    THEN /\ workers' = [workers EXCEPT ![music_thread].stop = TRUE]
         /\ pc' = join
    ELSE /\ workers' = workers
         /\ pc' = next

\* stop_music, second half: music_thread.join(timeout=10) returns because
\* the thread has exited, or times out on a thread that is blocked.
StopMusicJoin(join, next) ==
    /\ pc = join
    /\ UNCHANGED <<histVars, restVars>>
    /\ \/ ~WorkerAlive(music_thread)
       \/ WorkerBlocked(music_thread)
    /\ pc' = next
    /\ UNCHANGED <<ret, seq, cumulative_ts, streamer_proc, prebuffer, cur,
                   flushIdx, bumperSet, feederVars,
                   timeVars, feed_queue, staging, fifo, procs, workers,
                   music_thread, budget>>

(* ---------------------------------------------------------------------- *)
(* Conductor: the main loop of main()                                      *)
(* ---------------------------------------------------------------------- *)
otherVars == <<feederVars, timeVars, feed_queue, staging, fifo, procs,
               workers, music_thread, budget>>

\* A watchdog that does not look at streamer_proc.
WatchdogFiresInPrebuffer == feedAge > WATCHDOG_TIMEOUT

\* Watchdog: detect stalled feeder.
WatchdogFires == streamer_proc # None /\ feedAge > WATCHDOG_TIMEOUT

\* Top of the loop on air: the is_on_air() test, then the watchdog test.
LoopTopOnAir ==
    /\ pc = "top"
    /\ UNCHANGED <<histVars, restVars>>
    /\ \E hour \in Hours : is_on_air(hour)
    /\ IF WatchdogFires
       THEN pc' = "rec_kill" /\ ret' = "top"
       ELSE pc' = "guards" /\ ret' = ret
    /\ UNCHANGED <<seq, cumulative_ts, streamer_proc, prebuffer, cur,
                   flushIdx, bumperSet, otherVars>>

\* Top of the loop off air: the sign-off branch is entered and stop_music()
\* is called.
LoopTopOffAir ==
    /\ pc = "top"
    /\ recSnap' = NoSnap
    /\ UNCHANGED <<paused, restVars>>
    /\ \E hour \in Hours : ~is_on_air(hour)
    /\ signoffs < MaxSignOffs
    /\ signoffs' = signoffs + 1
    /\ StopMusicSet("offair_join", "offair_teardown")
    /\ UNCHANGED <<ret, seq, cumulative_ts, streamer_proc, prebuffer, cur,
                   flushIdx, bumperSet, feederVars, timeVars, feed_queue,
                   staging, fifo, procs, music_thread, faults>>

\* Sign off: stop_music() returns from its join.
OffAirJoinMusic == StopMusicJoin("offair_join", "offair_teardown")

\* Sign off: kill the streamer if it is still running (only then is the
\* handle dropped), cumulative_ts = 0.0, then os.unlink(audio_fifo_path)
\* (errors ignored) and os.mkfifo(...). An OSError from mkfifo leaves the
\* try body for the handler at 938, which calls recover_streamer().
OffAirTeardown ==
    /\ pc = "offair_teardown"
    /\ UNCHANGED <<histVars, restVars>>
    /\ IF streamer_proc # None /\ Alive(streamer_proc)
       THEN /\ procs' \in KillOutcomes(streamer_proc)
            /\ streamer_proc' = None
            /\ delivered' = <<>>
       ELSE UNCHANGED <<procs, streamer_proc, delivered, lastFed>>
    /\ cumulative_ts' = 0
    /\ workers' = Unlinked(workers)
    /\ \/ /\ fifo' = "fifo"
          /\ pc' = "offair_sleep"
          /\ UNCHANGED <<ret, budget>>
       \/ /\ faults < MaxFaults
          /\ faults' = faults + 1
          /\ UNCHANGED signoffs
          /\ fifo' = "missing"
          /\ pc' = "rec_kill"
          /\ ret' = "top"
    /\ UNCHANGED <<seq, prebuffer, cur, flushIdx, bumperSet, fpc, fitem,
                   expect, lastFed, timeVars, feed_queue, staging,
                   music_thread>>

\* wait_for_broadcast() returns at sign-on; the watchdog test follows.
SignOn ==
    /\ pc = "offair_sleep"
    /\ UNCHANGED <<histVars, restVars>>
    /\ IF WatchdogFires
       THEN pc' = "rec_kill" /\ ret' = "top"
       ELSE pc' = "guards" /\ ret' = ret
    /\ UNCHANGED <<seq, cumulative_ts, streamer_proc, prebuffer, cur,
                   flushIdx, bumperSet, otherVars>>

\* Guard: wait_for_disk_space() finds a partition below MIN_FREE_BYTES and
\* sleeps, DISK_CHECK_INTERVAL seconds at a time, until the space is back.
DiskPause ==
    /\ pc = "guards"
    /\ faults < MaxFaults
    /\ faults' = faults + 1
    /\ UNCHANGED signoffs
    /\ feedAge' = Min(feedAge + TimeUnit, MaxFeedAge)
    /\ bumperAge' = Min(bumperAge + TimeUnit, MaxBumperAge)
    /\ paused' = seq
    /\ UNCHANGED <<condVars, feederVars, feed_queue, staging, fifo, procs,
                   workers, music_thread, recSnap, restVars>>

\* Guard: the back-pressure loop is left once staging is below the limit.
GuardsPass == count_staging_files < MAX_STAGING_FILES

BumperDue == bumperSet /\ bumperAge >= BumperInterval

\* The duration picked for the render of fragment n.
DurationOf(n) == Durations[(n % Len(Durations)) + 1]

Fragment(n, pts, dur) == [seq |-> n, pts |-> pts, dur |-> dur]

\* A threshold that is one clip short.
PrebufferFullEarly(n) == n >= prebuffer_size - 1

\* if len(prebuffer) >= prebuffer_size
PrebufferFull(n) == n >= prebuffer_size

\* queue_clip(ts_path), up to the point where it returns to r or blocks:
\* with no streamer the clip is pre-buffered (and the flush starts at
\* prebuffer_size clips); with a streamer it is put on feed_queue, and the
\* put blocks while the queue is full.
QueueClip(frag, r) ==
    IF streamer_proc = None
    THEN /\ prebuffer' = Append(prebuffer, frag)
         /\ IF PrebufferFull(Len(prebuffer) + 1)
            THEN pc' = "flush_start" /\ ret' = r
            ELSE pc' = r /\ ret' = NoRet
         /\ cur' = NoFrag
         /\ feed_queue' = feed_queue
    ELSE IF Len(feed_queue) < QueueMaxsize
    THEN /\ feed_queue' = Append(feed_queue,
                                 [frag |-> frag, proc |-> streamer_proc])
         /\ pc' = r
         /\ ret' = NoRet
         /\ cur' = NoFrag
         /\ prebuffer' = prebuffer
    ELSE /\ pc' = "queue"
         /\ ret' = r
         /\ cur' = frag
         /\ UNCHANGED <<prebuffer, feed_queue>>

\* A bumper is due, render_bumper returns True, and the bumper is queued.
RenderBumperOk ==
    /\ pc = "guards"
    /\ recSnap' = NoSnap
    /\ UNCHANGED <<paused, restVars>>
    /\ GuardsPass
    /\ BumperDue
    /\ seq < MaxSeq
    /\ LET bumper_dur == DurationOf(seq + 1)
       IN /\ seq' = seq + 1
          /\ staging' = staging \cup {seq + 1}
          /\ cumulative_ts' = cumulative_ts + bumper_dur
          /\ QueueClip(Fragment(seq + 1, cumulative_ts, bumper_dur), "select")
    /\ bumperAge' = 0
    /\ UNCHANGED <<streamer_proc, flushIdx, bumperSet, feederVars,
                   feedAge, fifo, procs, workers, music_thread, budget>>

\* A render fails: one of the MaxFaults faults, or any render once the
\* MaxSeq sequence numbers of the model are used up (seq then stays put: a
\* failed render leaves no fragment that would carry the number).
RenderFails ==
    /\ faults < MaxFaults \/ seq = MaxSeq
    /\ faults' = IF seq < MaxSeq THEN faults + 1 ELSE faults
    /\ seq' = Min(seq + 1, MaxSeq)
    /\ UNCHANGED signoffs

\* A bumper is due and render_bumper returns False (partial output removed).
RenderBumperFail ==
    /\ pc = "guards"
    /\ recSnap' = NoSnap
    /\ UNCHANGED <<paused, restVars>>
    /\ GuardsPass
    /\ BumperDue
    /\ RenderFails
    /\ pc' = "select"
    /\ UNCHANGED <<ret, cumulative_ts, streamer_proc, prebuffer, cur,
                   flushIdx, bumperSet, feederVars, timeVars,
                   feed_queue, staging, fifo, procs, workers, music_thread>>

\* The clip part of an iteration starts after the bumper branch (pc =
\* "select"), or straight away when no bumper is due; in that case the
\* first pass starts the bumper clock (last_bumper_time = time.time()).
AtClip ==
    \/ pc = "select"
    \/ pc = "guards" /\ GuardsPass /\ ~BumperDue

BumperClock ==
    IF pc = "guards" /\ ~bumperSet
    THEN bumperSet' = TRUE /\ bumperAge' = 0
    ELSE UNCHANGED <<bumperSet, bumperAge>>

\* render_clip / render_overlay_clip returns True, and the clip is queued.
RenderClipOk ==
    /\ AtClip
    /\ recSnap' = NoSnap
    /\ UNCHANGED <<paused, restVars>>
    /\ seq < MaxSeq
    /\ BumperClock
    /\ LET output_dur == DurationOf(seq + 1)
       IN /\ seq' = seq + 1
          /\ staging' = staging \cup {seq + 1}
          /\ cumulative_ts' = cumulative_ts + output_dur
          /\ QueueClip(Fragment(seq + 1, cumulative_ts, output_dur), "top")
    /\ UNCHANGED <<streamer_proc, flushIdx, feederVars, feedAge,
                   fifo, procs, workers, music_thread, budget>>

\* A failed render that advances the PTS offset all the same.
RenderClipFailAdvancesTs ==
    /\ AtClip
    /\ recSnap' = NoSnap
    /\ UNCHANGED <<paused, restVars>>
    /\ RenderFails
    /\ BumperClock
    /\ cumulative_ts' = cumulative_ts + DurationOf(seq + 1)
    /\ pc' = "top"
    /\ UNCHANGED <<ret, streamer_proc, prebuffer, cur,
                   flushIdx, feederVars, feedAge, feed_queue,
                   staging, fifo, procs, workers, music_thread>>

\* render_clip / render_overlay_clip returns False.
RenderClipFail ==
    /\ AtClip
    /\ recSnap' = NoSnap
    /\ UNCHANGED <<paused, restVars>>
    /\ RenderFails
    /\ BumperClock
    /\ pc' = "top"
    /\ UNCHANGED <<ret, cumulative_ts, streamer_proc, prebuffer, cur,
                   flushIdx, feederVars, feedAge, feed_queue,
                   staging, fifo, procs, workers, music_thread>>

\* An exception in the loop body that ends the process.
LoopExceptionExits ==
    /\ AtClip
    /\ UNCHANGED <<histVars, restVars>>
    /\ faults < MaxFaults
    /\ faults' = faults + 1
    /\ UNCHANGED signoffs
    /\ BumperClock
    /\ pc' = "exited"
    /\ UNCHANGED <<ret, seq, cumulative_ts, streamer_proc, prebuffer, cur,
                   flushIdx, feederVars, feedAge, feed_queue,
                   staging, fifo, procs, workers, music_thread>>

\* An exception in the loop body (clip selection, say) reaches the handler
\* at 938, which calls recover_streamer().
LoopException ==
    /\ AtClip
    /\ UNCHANGED <<histVars, restVars>>
    /\ faults < MaxFaults
    /\ faults' = faults + 1
    /\ UNCHANGED signoffs
    /\ BumperClock
    /\ pc' = "rec_kill"
    /\ ret' = "top"
    /\ UNCHANGED <<seq, cumulative_ts, streamer_proc, prebuffer, cur,
                   flushIdx, feederVars, feedAge, feed_queue,
                   staging, fifo, procs, workers, music_thread>>

(* ---------------------------------------------------------------------- *)
(* queue_clip (blocked put) and start_streamer_and_flush                   *)
(* ---------------------------------------------------------------------- *)
\* queue_clip while live: the blocked feed_queue.put(...) gets its slot.
QueuePut ==
    /\ pc = "queue"
    /\ UNCHANGED <<histVars, restVars>>
    /\ Len(feed_queue) < QueueMaxsize
    /\ feed_queue' = Append(feed_queue, [frag |-> cur, proc |-> streamer_proc])
    /\ cur' = NoFrag
    /\ pc' = ret
    /\ ret' = NoRet
    /\ UNCHANGED <<seq, cumulative_ts, streamer_proc, prebuffer,
                   flushIdx, bumperSet, feederVars, timeVars,
                   staging, fifo, procs, workers, music_thread, budget>>

\* queue_clip while live: the put stays blocked for WATCHDOG_TIMEOUT seconds
\* and raises queue.Full; recover_streamer() is called.
QueueFull ==
    /\ pc = "queue"
    /\ UNCHANGED <<histVars, restVars>>
    /\ Len(feed_queue) >= QueueMaxsize
    /\ feedAge' = Min(feedAge + WATCHDOG_TIMEOUT, MaxFeedAge)
    /\ bumperAge' = Min(bumperAge + WATCHDOG_TIMEOUT, MaxBumperAge)
    /\ cur' = NoFrag
    /\ pc' = "rec_kill"
    /\ UNCHANGED <<ret, seq, cumulative_ts, streamer_proc, prebuffer,
                   flushIdx, bumperSet, feederVars, feed_queue,
                   staging, fifo, procs, workers, music_thread, budget>>

\* start_streamer_and_flush: start_music(), start_streamer(), reset of the
\* watchdog heartbeat.
FlushStart ==
    /\ pc = "flush_start"
    /\ paused' = NoPause
    /\ UNCHANGED <<recSnap, restVars>>
    /\ workers' = Append(workers, NewWorker)
    /\ music_thread' = Len(workers) + 1
    /\ fifo' = IF fifo = "missing" THEN "file" ELSE fifo
    /\ procs' = Append(procs, [st |-> "running", fifo |-> FALSE])
    /\ streamer_proc' = Len(procs) + 1
    /\ feedAge' = 0
    /\ expect' = prebuffer
    /\ flushIdx' = 1
    /\ pc' = "flush_put"
    /\ UNCHANGED <<ret, seq, cumulative_ts, prebuffer, cur, bumperSet, fpc,
                   fitem, delivered, lastFed, bumperAge, feed_queue, staging,
                   budget>>

\* start_streamer_and_flush: one feed_queue.put of the loop over prebuffer;
\* prebuffer.clear() after the last one.
FlushPut ==
    /\ pc = "flush_put"
    /\ UNCHANGED <<histVars, restVars>>
    /\ Len(feed_queue) < QueueMaxsize
    /\ feed_queue' = Append(feed_queue, [frag |-> prebuffer[flushIdx],
                                         proc |-> streamer_proc])
    /\ IF flushIdx = Len(prebuffer)
       THEN /\ prebuffer' = <<>>
            /\ flushIdx' = 0
            /\ pc' = ret
            /\ ret' = NoRet
       ELSE /\ prebuffer' = prebuffer
            /\ flushIdx' = flushIdx + 1
            /\ pc' = pc
            /\ ret' = ret
    /\ UNCHANGED <<seq, cumulative_ts, streamer_proc, cur, bumperSet,
                   feederVars, timeVars, staging, fifo, procs, workers,
                   music_thread, budget>>

(* ---------------------------------------------------------------------- *)
(* recover_streamer                                                        *)
(* ---------------------------------------------------------------------- *)
\* Kill the streamer (stdin is not closed), wait up to 15 s, drop the
\* handle; then stop_music() is called.
RecoverKill ==
    /\ pc = "rec_kill"
    /\ paused' = NoPause
    /\ UNCHANGED <<recSnap, restVars>>
    /\ procs' \in KillOutcomes(streamer_proc)
    /\ streamer_proc' = None
    /\ delivered' = <<>>
    /\ StopMusicSet("rec_join", "rec_drain")
    /\ UNCHANGED <<ret, seq, cumulative_ts, prebuffer, cur, flushIdx,
                   bumperSet, fpc, fitem, expect, timeVars, feed_queue,
                   staging, fifo, music_thread, budget, lastFed>>

\* recover_streamer: stop_music() returns from its join.
RecoverJoinMusic == StopMusicJoin("rec_join", "rec_drain")

\* A recovery that drains the queue, unlinking the drained files, but does
\* not sweep the staging directory.
RecoverDrainNoSweep ==
    /\ pc = "rec_drain"
    /\ UNCHANGED <<histVars, restVars>>
    /\ feed_queue' = <<>>
    /\ staging' = staging \ {feed_queue[i].frag.seq : i \in 1..Len(feed_queue)}
    /\ expect' = <<>>
    /\ pc' = "rec_fifo"
    /\ UNCHANGED <<ret, seq, cumulative_ts, streamer_proc, prebuffer, cur,
                   flushIdx, bumperSet, fpc, fitem, delivered, lastFed,
                   timeVars, fifo, procs, workers, music_thread, budget>>

\* time.sleep(1); drain the feed queue, unlinking every drained file; then
\* unlink every staging *.ts.
RecoverDrain ==
    /\ pc = "rec_drain"
    /\ UNCHANGED <<histVars, restVars>>
    /\ feed_queue' = <<>>
    /\ staging' = {}
    /\ expect' = <<>>
    /\ pc' = "rec_fifo"
    /\ UNCHANGED <<ret, seq, cumulative_ts, streamer_proc, prebuffer, cur,
                   flushIdx, bumperSet, fpc, fitem, delivered, timeVars,
                   fifo, procs, workers, music_thread, budget, lastFed>>

\* A reset that forgets the PTS offset.
RecoverResetKeepsTs ==
    /\ UNCHANGED cumulative_ts
    /\ prebuffer' = <<>>
    /\ feedAge' = 0

\* Reset state: prebuffer mode will restart streamer + music.
RecoverReset ==
    /\ cumulative_ts' = 0
    /\ prebuffer' = <<>>
    /\ feedAge' = 0

\* A recovery that uses up a sequence number.
RecoverFifoBumpsSeq ==
    /\ pc = "rec_fifo"
    /\ UNCHANGED <<histVars, restVars>>
    /\ workers' = Unlinked(workers)
    /\ \/ /\ fifo' = "fifo"
          /\ UNCHANGED budget
       \/ /\ faults < MaxFaults
          /\ faults' = faults + 1
          /\ UNCHANGED signoffs
          /\ fifo' \in {"fifo", "missing"}
    /\ streamer_proc' = None
    /\ RecoverReset
    /\ seq' = Min(seq + 1, MaxSeq)
    /\ pc' = "rec_done"
    /\ UNCHANGED <<ret, cur, flushIdx, bumperSet, feederVars, bumperAge,
                   feed_queue, staging, procs, music_thread>>

\* A recovery that starts the sequence numbers over.
RecoverFifoResetsSeq ==
    /\ pc = "rec_fifo"
    /\ UNCHANGED <<histVars, restVars>>
    /\ workers' = Unlinked(workers)
    /\ \/ /\ fifo' = "fifo"
          /\ UNCHANGED budget
       \/ /\ faults < MaxFaults
          /\ faults' = faults + 1
          /\ UNCHANGED signoffs
          /\ fifo' \in {"fifo", "missing"}
    /\ streamer_proc' = None
    /\ RecoverReset
    /\ seq' = 0
    /\ pc' = "rec_done"
    /\ UNCHANGED <<ret, cur, flushIdx, bumperSet, feederVars, bumperAge,
                   feed_queue, staging, procs, music_thread>>

\* Recreate audio FIFO: unlink (errors ignored) and mkfifo. An OSError from
\* mkfifo enters the except clause: streamer_proc = None and, the path being
\* absent, one more mkfifo whose OSError is ignored. Then, in either case,
\* reset state: cumulative_ts, prebuffer, last_feed_time.
RecoverFifo ==
    /\ pc = "rec_fifo"
    /\ UNCHANGED <<histVars, restVars>>
    /\ workers' = Unlinked(workers)
    /\ \/ /\ fifo' = "fifo"
          /\ UNCHANGED budget
       \/ /\ faults < MaxFaults
          /\ faults' = faults + 1
          /\ UNCHANGED signoffs
          /\ fifo' \in {"fifo", "missing"}
    /\ streamer_proc' = None
    /\ RecoverReset
    /\ pc' = "rec_done"
    /\ UNCHANGED <<ret, seq, cur, flushIdx, bumperSet, feederVars, bumperAge,
                   feed_queue, staging, procs, music_thread>>

\* recover_streamer returns to its caller.
RecoverReturn ==
    /\ pc = "rec_done"
    /\ recSnap' = PipelineState
    /\ UNCHANGED <<paused, restVars>>
    /\ pc' = ret
    /\ ret' = NoRet
    /\ UNCHANGED <<seq, cumulative_ts, streamer_proc, prebuffer, cur,
                   flushIdx, bumperSet, otherVars>>

(* ---------------------------------------------------------------------- *)
(* Shutdown: cleanup, the handler of SIGTERM and SIGINT, run by the main   *)
(* thread in the middle of whatever the Conductor was doing                *)
(* ---------------------------------------------------------------------- *)
\* Where the Conductor spends its time, and so where a signal finds it:
\* between two iterations (in a render), in the put of queue_clip, in the
\* sleep of recover_streamer and in the sleep of wait_for_broadcast.
SignalPcs == {"top", "queue", "rec_drain", "offair_sleep"}

\* cleanup: stop_music(). A worker that can see the stop event exits within
\* the join; the join on a worker that is blocked times out.
CleanupStopMusic ==
    IF music_thread # None /\ WorkerAlive(music_thread)
    THEN IF WorkerBlocked(music_thread)
         THEN [workers EXCEPT ![music_thread].stop = TRUE]
         ELSE [workers EXCEPT ![music_thread] = Exited]
    ELSE workers

\* The Feeder is inside proc.stdin.write() on the pipe of p, and the write
\* does not return: stdin.close() waits for the lock of the buffered writer.
FeederHoldsPipe(p) ==
    fpc = "feed" /\ fitem.proc = p /\ procs[p].st = "hung"

\* cleanup, last part: every staging *.ts and the FIFO are unlinked, and
\* sys.exit(0) ends the process and, with it, its daemon threads.
CleanupExit ==
    /\ staging' = {}
    /\ fifo' = "missing"
    /\ pc' = "exited"
    /\ feed_queue' = <<>>
    /\ fpc' = "done"
    /\ fitem' = NoItem
    /\ expect' = <<>>
    /\ workers' = [w \in 1..Len(workers) |-> Exited]
    /\ UNCHANGED <<ret, cur, flushIdx>>

\* cleanup, from the test of the Encoder on, with q the queue after the
\* put and ws the threads after stop_music: if the Encoder is alive,
\* streamer_proc.stdin.close(), terminate() and wait(timeout=10). An Encoder
\* that is running exits; one that is stuck may outlive the wait, and the
\* TimeoutExpired that wait raises is not caught in cleanup: it surfaces in
\* the loop body that the signal interrupted and is taken by the handler at
\* 938, which calls recover_streamer().
CleanupTerminate(q, ws) ==
    IF streamer_proc # None /\ Alive(streamer_proc)
    THEN IF FeederHoldsPipe(streamer_proc)
         THEN /\ pc' = "cl_term"
              /\ feed_queue' = q
              /\ workers' = ws
              /\ UNCHANGED <<staging, fifo, procs, ret, cur, flushIdx, fpc,
                             fitem, expect>>
         ELSE \/ /\ procs' = [procs EXCEPT ![streamer_proc] = Dead]
                 /\ CleanupExit
              \/ /\ procs[streamer_proc].st = "hung"
                 /\ pc' = "rec_kill"
                 /\ ret' = "top"
                 /\ cur' = NoFrag
                 /\ flushIdx' = 0
                 /\ feed_queue' = q
                 /\ workers' = ws
                 /\ UNCHANGED <<staging, fifo, procs, fpc, fitem, expect>>
    ELSE /\ procs' = procs
         /\ CleanupExit

\* cleanup, from feed_queue.put(None) on: the put has no timeout and blocks
\* while the queue is full.
CleanupPut(ws) ==
    IF Len(feed_queue) >= QueueMaxsize
    THEN /\ pc' = "cl_put"
         /\ workers' = ws
         /\ UNCHANGED <<feed_queue, staging, fifo, procs, ret, cur, flushIdx,
                        fpc, fitem, expect>>
    ELSE CleanupTerminate(Append(feed_queue, NoItem), ws)

\* The signal arrives and the main thread runs cleanup, up to the exit or to
\* the call in which it blocks.
Signal ==
    /\ pc \in SignalPcs
    /\ signals < MaxSignals
    /\ signals' = signals + 1
    /\ recSnap' = NoSnap
    /\ CleanupPut(CleanupStopMusic)
    /\ UNCHANGED <<seq, cumulative_ts, streamer_proc, prebuffer, bumperSet,
                   lastFed, delivered, timeVars, music_thread, budget,
                   paused, auxVars>>

\* The Feeder has made room in the queue, and cleanup goes on.
CleanupPutResumes ==
    /\ pc = "cl_put"
    /\ Len(feed_queue) < QueueMaxsize
    /\ CleanupPut(workers)
    /\ UNCHANGED <<seq, cumulative_ts, streamer_proc, prebuffer, bumperSet,
                   lastFed, delivered, timeVars, music_thread, budget,
                   histVars, restVars>>

(* ---------------------------------------------------------------------- *)
(* Specification                                                           *)
(* ---------------------------------------------------------------------- *)
ConductorStep ==
    \/ LoopTopOnAir
    \/ LoopTopOffAir
    \/ OffAirJoinMusic
    \/ OffAirTeardown
    \/ SignOn
    \/ DiskPause
    \/ RenderBumperOk
    \/ RenderBumperFail
    \/ RenderClipOk
    \/ RenderClipFail
    \/ LoopException
    \/ QueuePut
    \/ QueueFull
    \/ FlushStart
    \/ FlushPut
    \/ RecoverKill
    \/ RecoverJoinMusic
    \/ RecoverDrain
    \/ RecoverFifo
    \/ RecoverReturn
    \/ Signal
    \/ CleanupPutResumes

\* One render attempt: seq += 1, then render_bumper, render_overlay_clip or
\* render_clip.
RenderAttempt ==
    \/ RenderBumperOk
    \/ RenderBumperFail
    \/ RenderClipOk
    \/ RenderClipFail

FeederStep ==
    \/ FeederGet
    \/ FeedOk
    \/ FeedFail

OpensFifo == \E p \in 1..Len(procs) : EncoderOpenFifo(p)
Hangs == \E p \in 1..Len(procs) : EncoderHang(p)
Dies == \E p \in 1..Len(procs) : EncoderDie(p)
KilledExits == \E p \in 1..Len(procs) : EncoderExitKilled(p)

EncoderStep ==
    \/ OpensFifo
    \/ Hangs
    \/ Dies
    \/ KilledExits

ExitsOnStop == \E w \in 1..Len(workers) : MusicExitOnStop(w)
BrokenPipe == \E w \in 1..Len(workers) : MusicBrokenPipe(w)

MusicStep ==
    \/ ExitsOnStop
    \/ BrokenPipe

Next ==
    \/ ConductorStep
    \/ FeederStep
    \/ EncoderStep
    \/ MusicStep
    \/ Tick

Spec == Init /\ [][Next]_vars

\* Scheduling: the Conductor, the Feeder and the Music Workers keep running
\* (every render and every blocking call with a timeout returns), a process
\* that got SIGKILL exits in the end, and the wall clock keeps advancing
\* from one loop iteration to the next.
LiveSpec ==
    /\ Init
    /\ [][Next]_vars
    /\ WF_vars(ConductorStep)
    /\ WF_vars(FeederStep)
    /\ WF_vars(MusicStep)
    /\ WF_vars(KilledExits)
    /\ SF_vars(Tick)

(* ---------------------------------------------------------------------- *)
(* The clock-reading functions: is_on_air, wait_for_broadcast and          *)
(* get_current_daypart, applied along the sign-off / sign-on path of one   *)
(* loop iteration                                                          *)
(* ---------------------------------------------------------------------- *)
Hour == 3600
Day == 24 * Hour

\* Offsets within the hour at which the clock is read.
ClockSeconds == {0, Hour - 5}
Times == {h * Hour + s : h \in Hours, s \in ClockSeconds}
\* Seconds that the off-air teardown (stop_music, terminate and wait) takes
\* between the clock read of is_on_air and that of wait_for_broadcast.
TeardownDelays == {0, 5, 20}
\* start_hour and end_hour of the dayparts of the configurations explored,
\* and the longest list of dayparts.
DaypartHours == {0, 6, 22}
MaxDayparts == 2
Dayparts == [start_hour : DaypartHours, end_hour : DaypartHours]
DaypartLists == UNION {[1..n -> Dayparts] : n \in 0..MaxDayparts}

\* wait_secs of wait_for_broadcast when datetime.now() is t: sign_on is
\* BROADCAST_START:00 of the day of t, or of the day after when the hour of t
\* is before BROADCAST_END.
wait_for_broadcastNextDay(t) == (BROADCAST_START * Hour + Day) - t

wait_for_broadcast(t) ==
    IF t \div Hour >= BROADCAST_END
    THEN BROADCAST_START * Hour - t
    ELSE (BROADCAST_START * Hour + Day) - t

\* time.sleep(wait_secs) is called only if wait_secs > 0.
Slept == IF wait_secs > 0 THEN wait_secs ELSE 0

\* A daypart test that does not wrap around midnight.
DaypartMatchesNoWrap(dp, hour) ==
    dp.start_hour <= hour /\ hour < dp.end_hour

\* The test that get_current_daypart applies to one daypart.
DaypartMatches(dp, hour) ==
    IF dp.start_hour < dp.end_hour
    THEN dp.start_hour <= hour /\ hour < dp.end_hour
    ELSE hour >= dp.start_hour \/ hour < dp.end_hour

\* The for loop of get_current_daypart from position i on.
RECURSIVE DaypartFrom(_, _, _)
DaypartFrom(dps, hour, i) ==
    IF i > Len(dps) THEN None
    ELSE IF DaypartMatches(dps[i], hour) THEN i
    ELSE DaypartFrom(dps, hour, i + 1)

get_current_daypart(dps, hour) == DaypartFrom(dps, hour, 1)

ClockInit ==
    /\ MainInit
    /\ staging = {}
    /\ now \in Times
    /\ cpc = "top"
    /\ wait_secs = 0
    /\ dayparts \in DaypartLists
    /\ daypart = None
    /\ MusicIdle
    /\ BumperIdle
    /\ ClipsIdle
    /\ PickIdle

\* Top of the loop: if not is_on_air().
ClockLoopTop ==
    /\ cpc = "top"
    /\ cpc' = IF is_on_air(now \div Hour) THEN "on_air" ELSE "teardown"
    /\ UNCHANGED <<now, wait_secs, dayparts, daypart, mainVars,
                   clockRest>>

\* Sign-off: the music and the Encoder are stopped, which takes time.
ClockTeardown ==
    /\ cpc = "teardown"
    /\ \E d \in TeardownDelays : now' = (now + d) % Day
    /\ cpc' = "wait"
    /\ UNCHANGED <<wait_secs, dayparts, daypart, mainVars,
                   clockRest>>

\* wait_for_broadcast reads the clock and computes wait_secs.
ClockWait ==
    /\ cpc = "wait"
    /\ wait_secs' = wait_for_broadcast(now)
    /\ cpc' = "sleeping"
    /\ UNCHANGED <<now, dayparts, daypart, mainVars,
                   clockRest>>

\* time.sleep(wait_secs) returns: sign-on.
ClockSignOn ==
    /\ cpc = "sleeping"
    /\ now' = (now + Slept) % Day
    /\ cpc' = "on_air"
    /\ UNCHANGED <<wait_secs, dayparts, daypart, mainVars,
                   clockRest>>

\* The clip is picked for the current daypart.
ClockDaypart ==
    /\ cpc = "on_air"
    /\ daypart' = get_current_daypart(dayparts, now \div Hour)
    /\ cpc' = "picked"
    /\ UNCHANGED <<now, wait_secs, dayparts, mainVars, clockRest>>

ClockNext ==
    \/ ClockLoopTop
    \/ ClockTeardown
    \/ ClockWait
    \/ ClockSignOn
    \/ ClockDaypart

ClockSpec == ClockInit /\ [][ClockNext]_vars

(* ---------------------------------------------------------------------- *)
(* One Music Worker thread in detail: music_worker, with the stop event,   *)
(* the music library, the daypart and the reader of the FIFO as its        *)
(* environment                                                             *)
(* ---------------------------------------------------------------------- *)
\* Tracks in a shuffled playlist.
MaxTracks == 2

MusicInit ==
    /\ MainInit
    /\ staging = {}
    /\ ClockIdle
    /\ BumperIdle
    /\ ClipsIdle
    /\ PickIdle
    /\ wpc = "open"
    /\ stop_event = FALSE
    /\ fifo_fd = "none"
    /\ decoder = "none"
    /\ reader = "absent"
    /\ playlist = 0
    /\ music_files \in BOOLEAN
    /\ new_daypart = FALSE
    /\ wseen = {}

\* The finally clause of music_worker: fifo_fd.close(), and the thread ends.
MwExit(event) ==
    /\ wpc' = "exited"
    /\ fifo_fd' = IF fifo_fd = "open" THEN "closed" ELSE fifo_fd
    /\ wseen' = wseen \union {event}

\* open(audio_fifo_path, "wb") returns once a reader has opened the FIFO.
MwOpen ==
    /\ wpc = "open"
    /\ reader # "absent"
    /\ fifo_fd' = "open"
    /\ wpc' = "loop"
    /\ UNCHANGED <<stop_event, decoder, reader, playlist, music_files,
                   new_daypart, wseen, mainVars, musicRest>>

\* open() raises OSError: the worker returns without a FIFO.
MwOpenError ==
    /\ wpc = "open"
    /\ reader = "absent"
    /\ MwExit("oserror")
    /\ UNCHANGED <<stop_event, decoder, reader, playlist, music_files,
                   new_daypart, mainVars, musicRest>>

\* while not stop_event.is_set(): the playlist of the current daypart is
\* fetched and shuffled, or the worker sleeps on an empty library.
MwLoop ==
    /\ wpc = "loop"
    /\ IF stop_event
       THEN /\ MwExit("stop")
            /\ UNCHANGED <<playlist, new_daypart>>
       ELSE IF ~music_files
       THEN /\ wpc' = "sleep"
            /\ wseen' = wseen \union {"sleep"}
            /\ UNCHANGED <<fifo_fd, playlist, new_daypart>>
       ELSE /\ wpc' = "track"
            /\ playlist' = MaxTracks
            /\ new_daypart' = FALSE
            /\ wseen' = wseen \union (IF new_daypart THEN {"daypart"} ELSE {})
            /\ UNCHANGED fifo_fd
    /\ UNCHANGED <<stop_event, decoder, reader, music_files, mainVars,
                   musicRest>>

\* stop_event.wait(30) returns: break if the event is set, else continue.
MwSleepEnds ==
    /\ wpc = "sleep"
    /\ IF stop_event
       THEN MwExit("stop")
       ELSE wpc' = "loop" /\ UNCHANGED <<fifo_fd, wseen>>
    /\ UNCHANGED <<stop_event, decoder, reader, playlist, music_files,
                   new_daypart, mainVars, musicRest>>

\* A track change that closes the FIFO.
MwTrackClosesFifo ==
    /\ wpc = "track"
    /\ playlist > 0
    /\ ~stop_event
    /\ fifo_fd' = "closed"
    /\ decoder' = "running"
    /\ playlist' = playlist - 1
    /\ wpc' = "read"
    /\ wseen' = wseen \union {"track"}
    /\ UNCHANGED <<stop_event, reader, music_files, new_daypart, mainVars,
                   musicRest>>

\* Head of the for loop over the playlist: the playlist is exhausted, the
\* stop event is set or the daypart has changed (back to the while loop), or
\* the decoder of the next track is spawned.
MwTrack ==
    /\ wpc = "track"
    /\ IF playlist = 0
       THEN /\ wpc' = "loop"
            /\ wseen' = wseen \union {"reshuffle"}
            /\ UNCHANGED <<decoder, playlist>>
       ELSE IF stop_event \/ new_daypart
       THEN /\ wpc' = "loop"
            /\ UNCHANGED <<decoder, playlist, wseen>>
       ELSE /\ decoder' = "running"
            /\ playlist' = playlist - 1
            /\ wpc' = "read"
            /\ wseen' = wseen \union {"track"}
    /\ UNCHANGED <<stop_event, fifo_fd, reader, music_files, new_daypart,
                   mainVars, musicRest>>

\* while not stop_event.is_set(): chunk = proc.stdout.read(65536). With the
\* event set, or at the end of the decoder's output, the inner finally
\* closes the decoder's stdout and waits for the decoder.
MwRead ==
    /\ wpc = "read"
    /\ IF stop_event
       THEN /\ decoder' = "none"
            /\ wpc' = "track"
            /\ UNCHANGED wseen
       ELSE IF decoder = "eof"
       THEN /\ decoder' = "none"
            /\ wpc' = "track"
            /\ wseen' = wseen \union {"eof"}
       ELSE /\ wpc' = "write"
            /\ UNCHANGED <<decoder, wseen>>
    /\ UNCHANGED <<stop_event, fifo_fd, reader, playlist, music_files,
                   new_daypart, mainVars, musicRest>>

\* A broken pipe that only ends the track.
MwWriteSkipsTrack ==
    /\ wpc = "write"
    /\ reader \in {"reading", "gone"}
    /\ IF reader = "reading"
       THEN wpc' = "read" /\ UNCHANGED <<decoder, fifo_fd, wseen>>
       ELSE /\ decoder' = "none"
            /\ wpc' = "track"
            /\ wseen' = wseen \union {"broken"}
            /\ UNCHANGED fifo_fd
    /\ UNCHANGED <<stop_event, reader, playlist, music_files, new_daypart,
                   mainVars, musicRest>>

\* fifo_fd.write(chunk); fifo_fd.flush(): returns when the reader takes the
\* chunk, blocks while the reader is stalled, and raises BrokenPipeError when
\* the reader is gone: proc.kill(), return, through both finally clauses.
MwWrite ==
    /\ wpc = "write"
    /\ reader \in {"reading", "gone"}
    /\ IF reader = "reading"
       THEN wpc' = "read" /\ UNCHANGED <<decoder, fifo_fd, wseen>>
       ELSE decoder' = "none" /\ MwExit("broken")
    /\ UNCHANGED <<stop_event, reader, playlist, music_files, new_daypart,
                   mainVars, musicRest>>

\* stop_music(): the stop event of the worker is set.
MwStop ==
    /\ wpc # "exited"
    /\ ~stop_event
    /\ stop_event' = TRUE
    /\ UNCHANGED <<wpc, fifo_fd, decoder, reader, playlist, music_files,
                   new_daypart, wseen, mainVars, musicRest>>

\* The Encoder opens the FIFO, stops reading it, or is gone.
ReaderOpens ==
    /\ reader = "absent"
    /\ reader' = "reading"
    /\ UNCHANGED <<wpc, stop_event, fifo_fd, decoder, playlist, music_files,
                   new_daypart, wseen, mainVars, musicRest>>

ReaderStalls ==
    /\ reader = "reading"
    /\ reader' = "stalled"
    /\ UNCHANGED <<wpc, stop_event, fifo_fd, decoder, playlist, music_files,
                   new_daypart, wseen, mainVars, musicRest>>

ReaderGone ==
    /\ reader \in {"reading", "stalled"}
    /\ reader' = "gone"
    /\ UNCHANGED <<wpc, stop_event, fifo_fd, decoder, playlist, music_files,
                   new_daypart, wseen, mainVars, musicRest>>

\* The decoder reaches the end of the track, or fails: EOF on its stdout.
DecoderEnds ==
    /\ decoder = "running"
    /\ decoder' = "eof"
    /\ UNCHANGED <<wpc, stop_event, fifo_fd, reader, playlist, music_files,
                   new_daypart, wseen, mainVars, musicRest>>

\* The hour moves into another daypart.
DaypartChanges ==
    /\ wpc # "exited"
    /\ ~new_daypart
    /\ new_daypart' = TRUE
    /\ UNCHANGED <<wpc, stop_event, fifo_fd, decoder, reader, playlist,
                   music_files, wseen, mainVars, musicRest>>

\* The music library of the daypart becomes empty, or is filled.
LibraryChanges ==
    /\ wpc # "exited"
    /\ music_files' = ~music_files
    /\ UNCHANGED <<wpc, stop_event, fifo_fd, decoder, reader, playlist,
                   new_daypart, wseen, mainVars, musicRest>>

MusicWorkerStep ==
    \/ MwOpen
    \/ MwLoop
    \/ MwSleepEnds
    \/ MwTrack
    \/ MwRead
    \/ MwWrite

MusicNext ==
    \/ MusicWorkerStep
    \/ MwOpenError
    \/ MwStop
    \/ ReaderOpens
    \/ ReaderStalls
    \/ ReaderGone
    \/ DecoderEnds
    \/ DaypartChanges
    \/ LibraryChanges

MusicSpec == MusicInit /\ [][MusicNext]_vars

\* A reader that has stopped reading is killed.
StalledReaderGone == reader = "stalled" /\ ReaderGone

\* Scheduling: the thread runs whenever it is not blocked in a system call,
\* and an Encoder that has stopped reading is killed in the end. Nothing
\* makes an Encoder open a FIFO that has none: the off-air teardown and the
\* recovery replace the FIFO at audio_fifo_path, and the next Encoder opens
\* the new one.
MusicLiveSpec ==
    /\ MusicInit
    /\ [][MusicNext]_vars
    /\ WF_vars(MusicWorkerStep)
    /\ WF_vars(StalledReaderGone)

(* ---------------------------------------------------------------------- *)
(* The bumper check of the main loop on an explicit wall clock             *)
(* ---------------------------------------------------------------------- *)
\* Last reading of the wall clock explored, in seconds.
MaxClock == 450
\* time.time() when the main loop starts (it is never 0).
StartClock == 30
\* Seconds that a render, a recovery and an off-air sleep take.
RenderSecs == {30, 60}
RecoverySecs == {30}
OffAirSecs == {90}
\* bumpers.min_interval_minutes of the configurations explored.
IntervalMinutes == {1, 2}
\* No two bumpers have been rendered yet.
NoGap == 0 - 1

BumperInit ==
    /\ MainInit
    /\ staging = {}
    /\ ClockIdle
    /\ MusicIdle
    /\ ClipsIdle
    /\ PickIdle
    /\ bpc = "top"
    /\ btime = StartClock
    /\ last_bumper_time = 0
    /\ min_interval_minutes \in IntervalMinutes
    /\ bdone = 0
    /\ bgap = NoGap
    /\ bseen = {}
    /\ bbetween = {}

\* A check in which the interval is taken for seconds.
BumperIsDueSeconds(t) ==
    last_bumper_time > 0 /\ (t - last_bumper_time) >= min_interval_minutes

\* last_bumper_time > 0 and (now - last_bumper_time) >= interval * 60, with
\* now = t.
BumperIsDue(t) ==
    last_bumper_time > 0
        /\ (t - last_bumper_time) >= min_interval_minutes * 60

\* Top of an iteration that is on air and whose watchdog test passes.
BumperLoopTop ==
    /\ bpc = "top"
    /\ bpc' = "check"
    /\ UNCHANGED <<btime, last_bumper_time, min_interval_minutes, bdone, bgap,
                   bseen, bbetween, mainVars, bumperRest>>

\* Top of an iteration that is off air: teardown and sleep until sign-on,
\* then the rest of the iteration.
BumperOffAir ==
    /\ bpc = "top"
    /\ \E d \in OffAirSecs : btime + d <= MaxClock /\ btime' = btime + d
    /\ bseen' = bseen \union {"offair"}
    /\ bpc' = "check"
    /\ UNCHANGED <<last_bumper_time, min_interval_minutes, bdone, bgap,
                   bbetween, mainVars, bumperRest>>

\* Top of an iteration whose watchdog test fails: recover_streamer(), then
\* continue.
BumperRecovery ==
    /\ bpc = "top"
    /\ \E d \in RecoverySecs : btime + d <= MaxClock /\ btime' = btime + d
    /\ bseen' = bseen \union {"recovery"}
    /\ bpc' = "top"
    /\ UNCHANGED <<last_bumper_time, min_interval_minutes, bdone, bgap,
                   bbetween, mainVars, bumperRest>>

\* The bumper is due and render_bumper returns True: last_bumper_time is
\* the time at the end of the render.
BumperRendered ==
    /\ bpc = "check"
    /\ BumperIsDue(btime)
    /\ \E d \in RenderSecs : btime + d <= MaxClock /\ btime' = btime + d
    /\ last_bumper_time' = btime'
    /\ bgap' = IF bdone > 0 THEN btime - bdone ELSE NoGap
    /\ bdone' = btime'
    /\ bbetween' = bseen
    /\ bseen' = {}
    /\ bpc' = "clip"
    /\ UNCHANGED <<min_interval_minutes, mainVars, bumperRest>>

\* The bumper is due and render_bumper returns False.
BumperRenderFailed ==
    /\ bpc = "check"
    /\ BumperIsDue(btime)
    /\ \E d \in RenderSecs : btime + d <= MaxClock /\ btime' = btime + d
    /\ bseen' = bseen \union {"fail"}
    /\ bpc' = "clip"
    /\ UNCHANGED <<last_bumper_time, min_interval_minutes, bdone, bgap,
                   bbetween, mainVars, bumperRest>>

\* No bumper is due; the first check starts the bumper clock.
BumperNotDue ==
    /\ bpc = "check"
    /\ ~BumperIsDue(btime)
    /\ last_bumper_time' =
           IF last_bumper_time = 0 THEN btime ELSE last_bumper_time
    /\ bpc' = "clip"
    /\ UNCHANGED <<btime, min_interval_minutes, bdone, bgap, bseen, bbetween,
                   mainVars, bumperRest>>

\* The clip of the iteration is rendered, or its render fails.
BumperClip ==
    /\ bpc = "clip"
    /\ \E d \in RenderSecs : btime + d <= MaxClock /\ btime' = btime + d
    /\ bpc' = "top"
    /\ UNCHANGED <<last_bumper_time, min_interval_minutes, bdone, bgap, bseen,
                   bbetween, mainVars, bumperRest>>

BumperNext ==
    \/ BumperLoopTop
    \/ BumperOffAir
    \/ BumperRecovery
    \/ BumperRendered
    \/ BumperRenderFailed
    \/ BumperNotDue
    \/ BumperClip

BumperSpec == BumperInit /\ [][BumperNext]_vars

(* ---------------------------------------------------------------------- *)
(* recover_streamer statement by statement, from its call to its return,   *)
(* with the Feeder, the Music Worker and the killed Encoder running        *)
(* beside it                                                               *)
(* ---------------------------------------------------------------------- *)
\* Items in feed_queue, and fragments in the pre-buffer, at the call.
MaxPending == 2

\* The fragments rendered before the call, with a continuous timeline.
RECURSIVE PtsOf(_)
PtsOf(n) == IF n <= 1 THEN 0 ELSE PtsOf(n - 1) + DurationOf(n - 1)
Rendered(n) == Fragment(n, PtsOf(n), DurationOf(n))

\* The positions of recover_streamer, in the order of its statements.
RecoverOrder ==
    <<"rs_kill", "rs_stop", "rs_join", "rs_sleep", "rs_drain", "rs_sweep",
      "rs_unlink", "rs_mkfifo", "rs_except", "rs_reset", "rs_done">>
RecoverPos(p) == CHOOSE i \in 1..Len(RecoverOrder) : RecoverOrder[i] = p
\* recover_streamer has come to position p, or further.
Reached(p) == RecoverPos(pc) >= RecoverPos(p)

\* recover_streamer is called while live: the Encoder is running, has stopped
\* consuming or has died, the Music Worker is playing or still opening the
\* FIFO, the Feeder holds fragment 1 or has written it, and the fragments
\* after it are in the queue.
RecoverCalledLive ==
    \E held \in BOOLEAN, k \in 0..MaxPending,
       st \in {"running", "hung", "dead"}, opened \in BOOLEAN :
        /\ streamer_proc = 1
        /\ procs = <<[st |-> st, fifo |-> opened]>>
        /\ workers = <<IF opened
                       THEN [st |-> "playing", stop |-> FALSE, cur |-> FALSE,
                             enc |-> 1]
                       ELSE [st |-> "opening", stop |-> FALSE, cur |-> TRUE,
                             enc |-> None]>>
        /\ music_thread = 1
        /\ fitem = IF held THEN [frag |-> Rendered(1), proc |-> 1] ELSE NoItem
        /\ fpc = IF held THEN "feed" ELSE "get"
        /\ lastFed = IF held THEN 0 ELSE 1
        /\ delivered = IF held THEN <<>> ELSE <<Rendered(1)>>
        /\ feed_queue = [i \in 1..k |-> [frag |-> Rendered(i + 1), proc |-> 1]]
        /\ staging = {i + 1 : i \in 1..k} \union (IF held THEN {1} ELSE {})
        /\ seq = k + 1
        /\ prebuffer = <<>>

\* recover_streamer is called in prebuffer mode, by the exception handler of
\* the main loop.
RecoverCalledPrebuffer ==
    \E k \in 1..MaxPending :
        /\ streamer_proc = None
        /\ procs = <<>>
        /\ workers = <<>>
        /\ music_thread = None
        /\ fitem = NoItem
        /\ fpc = "get"
        /\ lastFed = 0
        /\ delivered = <<>>
        /\ feed_queue = <<>>
        /\ staging = 1..k
        /\ seq = k
        /\ prebuffer = [i \in 1..k |-> Rendered(i)]

RecoverInit ==
    /\ pc = "rs_kill"
    /\ ret = "top"
    /\ RecoverCalledLive \/ RecoverCalledPrebuffer
    /\ cumulative_ts = PtsOf(seq + 1)
    /\ cur = NoFrag
    /\ flushIdx = 0
    /\ feedAge \in {0, MaxFeedAge}
    /\ bumperSet = FALSE
    /\ bumperAge = 0
    /\ fifo = "fifo"
    /\ faults = 0
    /\ signoffs = 0
    /\ expect = <<>>
    /\ recSnap = NoSnap
    /\ paused = NoPause
    /\ signals = 0
    /\ ClockIdle
    /\ MusicIdle
    /\ BumperIdle
    /\ ClipsIdle
    /\ PickIdle

\* A recovery that resets its state before it has torn anything down.
RsKillResetsFirst ==
    /\ pc = "rs_kill"
    /\ procs' \in KillOutcomes(streamer_proc)
    /\ streamer_proc' = None
    /\ RecoverReset
    /\ pc' = "rs_stop"
    /\ UNCHANGED <<ret, seq, cur, flushIdx, bumperSet, feederVars,
                   bumperAge, feed_queue, staging, fifo, workers, music_thread,
                   budget, histVars, restVars>>

\* if streamer_proc and streamer_proc.poll() is None: kill(), wait(timeout=15)
\* with TimeoutExpired caught; streamer_proc = None. stdin is left alone.
RsKill ==
    /\ pc = "rs_kill"
    /\ procs' \in KillOutcomes(streamer_proc)
    /\ streamer_proc' = None
    /\ pc' = "rs_stop"
    /\ UNCHANGED <<ret, seq, cumulative_ts, prebuffer, cur, flushIdx,
                   bumperSet, feederVars, timeVars, feed_queue, staging, fifo,
                   workers, music_thread, budget, histVars, restVars>>

\* stop_music(): music_stop_event.set() if the thread is alive.
RsStopMusic ==
    /\ pc = "rs_stop"
    /\ StopMusicSet("rs_join", "rs_sleep")
    /\ UNCHANGED <<ret, seq, cumulative_ts, streamer_proc, prebuffer, cur,
                   flushIdx, bumperSet, feederVars, timeVars, feed_queue,
                   staging, fifo, procs, music_thread, budget, histVars,
                   restVars>>

\* stop_music(): music_thread.join(timeout=10).
RsJoin == StopMusicJoin("rs_join", "rs_sleep")

\* time.sleep(1)
RsSleep ==
    /\ pc = "rs_sleep"
    /\ pc' = "rs_drain"
    /\ UNCHANGED <<ret, seq, cumulative_ts, streamer_proc, prebuffer, cur,
                   flushIdx, bumperSet, otherVars, histVars, restVars>>

\* One pass of the drain loop: get_nowait() and the unlink of the item's
\* file; the loop ends when the queue is empty.
RsDrain ==
    /\ pc = "rs_drain"
    /\ IF feed_queue = <<>>
       THEN pc' = "rs_sweep" /\ UNCHANGED <<feed_queue, staging>>
       ELSE /\ feed_queue' = Tail(feed_queue)
            /\ staging' = staging \ {Head(feed_queue).frag.seq}
            /\ pc' = pc
    /\ UNCHANGED <<ret, seq, cumulative_ts, streamer_proc, prebuffer, cur,
                   flushIdx, bumperSet, feederVars, timeVars, fifo, procs,
                   workers, music_thread, budget, histVars, restVars>>

\* Clean staging files: every *.ts in staging_dir is unlinked.
RsSweep ==
    /\ pc = "rs_sweep"
    /\ staging' = {}
    /\ pc' = "rs_unlink"
    /\ UNCHANGED <<ret, seq, cumulative_ts, streamer_proc, prebuffer, cur,
                   flushIdx, bumperSet, feederVars, timeVars, feed_queue, fifo,
                   procs, workers, music_thread, budget, histVars, restVars>>

\* os.unlink(audio_fifo_path), OSError ignored.
RsUnlinkFifo ==
    /\ pc = "rs_unlink"
    /\ fifo' = "missing"
    /\ workers' = Unlinked(workers)
    /\ pc' = "rs_mkfifo"
    /\ UNCHANGED <<ret, seq, cumulative_ts, streamer_proc, prebuffer, cur,
                   flushIdx, bumperSet, feederVars, timeVars, feed_queue,
                   staging, procs, music_thread, budget, histVars, restVars>>

\* os.mkfifo(audio_fifo_path): the FIFO is back, or OSError is raised and
\* the except clause is entered.
RsMkfifo ==
    /\ pc = "rs_mkfifo"
    /\ \/ fifo' = "fifo" /\ pc' = "rs_reset"
       \/ fifo' = fifo /\ pc' = "rs_except"
    /\ UNCHANGED <<ret, seq, cumulative_ts, streamer_proc, prebuffer, cur,
                   flushIdx, bumperSet, feederVars, timeVars, feed_queue,
                   staging, procs, workers, music_thread, budget, histVars,
                   restVars>>

\* except Exception: streamer_proc = None, and one more os.mkfifo, whose
\* OSError is ignored, if the path does not exist.
RsExcept ==
    /\ pc = "rs_except"
    /\ streamer_proc' = None
    /\ fifo' \in {"fifo", "missing"}
    /\ pc' = "rs_reset"
    /\ UNCHANGED <<ret, seq, cumulative_ts, prebuffer, cur, flushIdx,
                   bumperSet, feederVars, timeVars, feed_queue, staging,
                   procs, workers, music_thread, budget, histVars, restVars>>

\* Reset state: cumulative_ts = 0.0, prebuffer = [], last_feed_time =
\* time.time(); recover_streamer returns.
RsReset ==
    /\ pc = "rs_reset"
    /\ RecoverReset
    /\ pc' = "rs_done"
    /\ UNCHANGED <<ret, seq, streamer_proc, cur, flushIdx, bumperSet,
                   feederVars, bumperAge, feed_queue, staging, fifo, procs,
                   workers, music_thread, budget, histVars, restVars>>

RecoverStep ==
    \/ RsKill
    \/ RsStopMusic
    \/ RsJoin
    \/ RsSleep
    \/ RsDrain
    \/ RsSweep
    \/ RsUnlinkFifo
    \/ RsMkfifo
    \/ RsExcept
    \/ RsReset

RecoverNext ==
    \/ RecoverStep
    \/ FeederStep
    \/ MusicStep
    \/ KilledExits

RecoverSpec == RecoverInit /\ [][RecoverNext]_vars

(* ---------------------------------------------------------------------- *)
(* The clip selection of the main loop: the start-up scan of clips_dir,    *)
(* get_daypart_clips with its cache, and random.choice on the clip set it  *)
(* returns, with the hour and the contents of the override directories as  *)
(* the environment                                                         *)
(* ---------------------------------------------------------------------- *)
\* Clips in one directory.
MaxClips == 2

\* cfg["dayparts"] of the configuration explored: daypart 1 from 0:00 to
\* 6:00, daypart 2 from 6:00 to 22:00, and no daypart from 22:00 on. A
\* daypart is named by its position in the list.
ClipDayparts ==
    <<[start_hour |-> 0, end_hour |-> 6], [start_hour |-> 6, end_hour |-> 22]>>
\* Hours at which the clock is read: one in each daypart, one in none.
ClipHours == {0, 6, 22}
\* What scan_media_files can find in a directory: the clips n of directory
\* dir, where dir is 0 for clips_dir and d for the override directory of
\* daypart d.
Scans(dir) == {{[dir |-> dir, n |-> i] : i \in 1..k} : k \in 0..MaxClips}
\* No selection has been made yet.
NoCall == 0 - 1

ClipsInit ==
    /\ MainInit
    /\ staging = {}
    /\ ClockIdle
    /\ MusicIdle
    /\ BumperIdle
    /\ PickIdle
    /\ kpc = "startup"
    /\ clock_hour \in ClipHours
    /\ clip_files \in Scans(0)
    /\ clips_dayparts \in SUBSET (1..Len(ClipDayparts))
    /\ override_dirs \in {f \in [1..Len(ClipDayparts) ->
                                    UNION {Scans(d) : d \in 1..Len(ClipDayparts)}] :
                             \A d \in 1..Len(ClipDayparts) : f[d] \in Scans(d)}
    /\ clips_cache = [daypart |-> None, files |-> {}, filled |-> FALSE]
    /\ active_clips = {}
    /\ prev_dp = NoCall
    /\ kseen = {}

\* What get_daypart_clips returns for daypart dp without its cache: the scan
\* of the override directory if dp has one and the scan is not empty, the
\* default clips otherwise.
Uncached(dp) ==
    IF dp # None /\ dp \in clips_dayparts /\ override_dirs[dp] # {}
    THEN override_dirs[dp]
    ELSE clip_files

\* A cache that is not keyed by the daypart.
get_daypart_clipsAnyDaypart(dp) ==
    IF clips_cache.filled
    THEN [files |-> clips_cache.files, cache |-> clips_cache]
    ELSE [files |-> Uncached(dp),
          cache |-> [daypart |-> dp, files |-> Uncached(dp), filled |-> TRUE]]

\* A selection that takes the override directory even when its scan is
\* empty.
get_daypart_clipsEmptyOverride(dp) ==
    IF dp = clips_cache.daypart /\ clips_cache.filled
    THEN [files |-> clips_cache.files, cache |-> clips_cache]
    ELSE IF dp # None /\ dp \in clips_dayparts
    THEN [files |-> override_dirs[dp],
          cache |-> [daypart |-> dp, files |-> override_dirs[dp],
                     filled |-> TRUE]]
    ELSE [files |-> clip_files,
          cache |-> [daypart |-> dp, files |-> clip_files, filled |-> TRUE]]

\* get_daypart_clips(cfg, default_clips) when get_current_daypart returns
\* dp: the files returned and the cache left behind. filled stands for
\* _clips_cache["files"] is not None.
get_daypart_clips(dp) ==
    IF dp = clips_cache.daypart /\ clips_cache.filled
    THEN [files |-> clips_cache.files, cache |-> clips_cache]
    ELSE IF dp # None /\ dp \in clips_dayparts /\ override_dirs[dp] # {}
    THEN [files |-> override_dirs[dp],
          cache |-> [daypart |-> dp, files |-> override_dirs[dp],
                     filled |-> TRUE]]
    ELSE [files |-> clip_files,
          cache |-> [daypart |-> dp, files |-> clip_files, filled |-> TRUE]]

\* Scan content: with no clip in clips_dir, main() exits before the loop.
ClipsStartup ==
    /\ kpc = "startup"
    /\ kpc' = IF clip_files = {} THEN "exited" ELSE "top"
    /\ UNCHANGED <<clock_hour, clip_files, clips_dayparts, override_dirs,
                   clips_cache, active_clips, prev_dp, kseen, mainVars,
                   clipRest>>

\* active_clips, clips_daypart = get_daypart_clips(cfg, clip_files)
GetDaypartClips ==
    /\ kpc = "top"
    /\ LET dp == get_current_daypart(ClipDayparts, clock_hour)
           r == get_daypart_clips(dp)
       IN /\ active_clips' = r.files
          /\ clips_cache' = r.cache
          /\ prev_dp' = dp
          /\ kseen' = kseen
                \union (IF prev_dp \notin {NoCall, dp}
                        THEN {"boundary"} ELSE {})
                \union (IF dp = prev_dp /\ r.files # Uncached(dp)
                        THEN {"kept"} ELSE {})
                \union (IF dp # None /\ dp \in clips_dayparts
                        THEN IF override_dirs[dp] = {}
                             THEN {"empty"} ELSE {"override"}
                        ELSE {})
    /\ kpc' = "got"
    /\ UNCHANGED <<clock_hour, clip_files, clips_dayparts, override_dirs,
                   mainVars, clipRest>>

\* pick_clip: random.choice(clips) raises IndexError on an empty list.
PickFromClips ==
    /\ kpc = "got"
    /\ kpc' = IF active_clips = {} THEN "error" ELSE "top"
    /\ UNCHANGED <<clock_hour, clip_files, clips_dayparts, override_dirs,
                   clips_cache, active_clips, prev_dp, kseen, mainVars,
                   clipRest>>

\* The hour moves on between two iterations.
HourPasses ==
    /\ kpc = "top"
    /\ clock_hour' \in ClipHours \ {clock_hour}
    /\ UNCHANGED <<kpc, clip_files, clips_dayparts, override_dirs,
                   clips_cache, active_clips, prev_dp, kseen, mainVars,
                   clipRest>>

\* Clips are added to an override directory, or removed from it.
DirChanges ==
    /\ kpc = "top"
    /\ \E d \in 1..Len(ClipDayparts) :
          \E files \in Scans(d) \ {override_dirs[d]} :
              override_dirs' = [override_dirs EXCEPT ![d] = files]
    /\ UNCHANGED <<kpc, clock_hour, clip_files, clips_dayparts, clips_cache,
                   active_clips, prev_dp, kseen, mainVars, clipRest>>

ClipsNext ==
    \/ ClipsStartup
    \/ GetDaypartClips
    \/ PickFromClips
    \/ HourPasses
    \/ DirChanges

ClipsSpec == ClipsInit /\ [][ClipsNext]_vars

(* ---------------------------------------------------------------------- *)
(* pick_clip: the window of the clip that is rendered. Durations are in    *)
(* half seconds, so that the test max_start > 1 has values on both sides   *)
(* of one second that are not whole seconds.                               *)
(* ---------------------------------------------------------------------- *)
\* Longest clip, and largest clip_min_duration / clip_max_duration.
MaxDur == 8
MaxPick == 5
\* The 1 of max_start > 1, in half seconds.
OneSecond == 2

PickInit ==
    /\ MainInit
    /\ staging = {}
    /\ ClockIdle
    /\ MusicIdle
    /\ BumperIdle
    /\ ClipsIdle
    /\ ppc = "call"
    /\ clip_dur \in 1..MaxDur
    /\ min_dur \in 1..MaxPick
    /\ max_dur \in min_dur..MaxPick
    /\ picked = [start |-> 0, use_dur |-> 0, needs_loop |-> FALSE,
                 target |-> 0]

\* A pick that keeps the drawn duration for a clip that is shorter.
pick_clipKeepsTarget(dur, use_dur, draw) ==
    IF dur <= use_dur
    THEN [start |-> 0, use_dur |-> use_dur, needs_loop |-> TRUE,
          target |-> use_dur]
    ELSE [start |-> IF dur - use_dur > OneSecond THEN draw ELSE 0,
          use_dur |-> use_dur, needs_loop |-> FALSE, target |-> use_dur]

\* pick_clip for a clip of duration dur, with use_dur the outcome of
\* random.uniform(min_dur, max_dur) and draw that of random.uniform(0,
\* max_start): seek start, use duration and needs_loop (target records the
\* drawn duration).
pick_clip(dur, use_dur, draw) ==
    IF dur <= use_dur
    THEN [start |-> 0, use_dur |-> dur, needs_loop |-> TRUE,
          target |-> use_dur]
    ELSE [start |-> IF dur - use_dur > OneSecond THEN draw ELSE 0,
          use_dur |-> use_dur, needs_loop |-> FALSE, target |-> use_dur]

\* clip_path, clip_start, clip_dur, needs_loop = pick_clip(active_clips,
\* clip_min, clip_max)
PickClip ==
    /\ ppc = "call"
    /\ \E use_dur \in min_dur..max_dur :
          \E draw \in 0..(IF clip_dur > use_dur THEN clip_dur - use_dur ELSE 0) :
              picked' = pick_clip(clip_dur, use_dur, draw)
    /\ ppc' = "returned"
    /\ UNCHANGED <<clip_dur, min_dur, max_dur, mainVars, pickRest>>

\* The next iteration: random.choice picks a clip of another duration.
PickNextClip ==
    /\ ppc = "returned"
    /\ clip_dur' \in 1..MaxDur
    /\ ppc' = "call"
    /\ UNCHANGED <<min_dur, max_dur, picked, mainVars, pickRest>>

PickNext ==
    \/ PickClip
    \/ PickNextClip

PickSpec == PickInit /\ [][PickNext]_vars

(* ---------------------------------------------------------------------- *)
(* Properties                                                              *)
(* ---------------------------------------------------------------------- *)
\* C1. PTS continuity: of two fragments written one after the other to the
\* same Encoder, the second's PTS offset is the first's PTS offset plus the
\* first's duration.
PTSContinuity ==
    Len(delivered) = 2 =>
        delivered[2].pts = delivered[1].pts + delivered[1].dur

\* C2. PTS reset: cumulative_ts is 0 when recover_streamer returns, when the
\* sign-off teardown is done, and in prebuffer mode as long as nothing has
\* been rendered into the pre-buffer; the first fragment written to an
\* Encoder has PTS offset 0.
PTSReset ==
    /\ pc \in {"rec_done", "offair_sleep"} => cumulative_ts = 0
    /\ mode = "prebuffer" /\ prebuffer = <<>> => cumulative_ts = 0
    /\ Len(delivered) = 1 => delivered[1].pts = 0

\* The first fragment has been written to the second Encoder.
PTSResetWitness ==
    /\ Len(procs) = 2
    /\ Len(delivered) = 1

\* The fragments still on their way to the Encoder, oldest first: the item
\* the Feeder holds, the queue, the part of the pre-buffer not yet flushed,
\* and the fragment of a blocked put.
Pending ==
    (IF fpc = "feed" THEN <<fitem.frag>> ELSE <<>>)
    \o SelectSeq([i \in 1..Len(feed_queue) |-> feed_queue[i].frag],
                 LAMBDA f : f # NoFrag)
    \o (IF pc = "flush_put"
        THEN SubSeq(prebuffer, flushIdx, Len(prebuffer))
        ELSE prebuffer)
    \o (IF cur = NoFrag THEN <<>> ELSE <<cur>>)

\* C3. Ordered, at-most-once delivery: the fragments written to the Encoder
\* have strictly increasing sequence numbers, and so have the fragments
\* still on their way, all of them later than the last one written.
OrderedDelivery ==
    /\ \A i \in 1..Len(Pending) :
          /\ Pending[i].seq > lastFed
          /\ i > 1 => Pending[i].seq > Pending[i - 1].seq
    /\ \A i \in 1..Len(delivered) :
          /\ delivered[i].seq <= lastFed
          /\ i > 1 => delivered[i].seq > delivered[i - 1].seq

\* Fragments have been written to a second Encoder, after a teardown, while
\* the Feeder holds the next fragment and the queue holds one more.
OrderedDeliveryWitness ==
    /\ Len(procs) = 2
    /\ Len(delivered) = 2
    /\ fpc = "feed"
    /\ feed_queue # <<>>

\* C4. Pre-buffer threshold: an Encoder is spawned only by the flush, with no
\* Encoder referenced and with prebuffer_size fragments in the pre-buffer,
\* whose files are all in staging; the flush starts as soon as the
\* pre-buffer holds prebuffer_size fragments, and it never holds more.
PrebufferThreshold ==
    /\ [](/\ Len(prebuffer) <= prebuffer_size
          /\ Len(prebuffer) = prebuffer_size
                => pc \in {"flush_start", "flush_put"}
          /\ pc = "flush_start"
                => \A i \in 1..Len(prebuffer) : prebuffer[i].seq \in staging)
    /\ [][Len(procs') > Len(procs)
            => /\ pc = "flush_start"
               /\ streamer_proc = None
               /\ Len(prebuffer) = prebuffer_size]_vars

\* After a recovery, the flush has spawned the second Encoder and is about
\* to queue the first pre-buffered fragment.
PrebufferThresholdWitness ==
    /\ pc = "flush_put"
    /\ flushIdx = 1
    /\ Len(procs) = 2
    /\ signoffs = 0

\* C5. Pre-buffer ordering: the items the Feeder dequeues after a live
\* transition are, one after the other, the fragments that were in the
\* pre-buffer at the transition.
PrebufferOrdering ==
    [][fpc = "get" /\ fpc' = "feed" /\ expect # <<>>
          => fitem'.frag = Head(expect)]_vars

\* C6. At most one Music Worker thread is alive at any time.
SingleMusicWorker == Cardinality(AliveWorkers) <= 1

\* C7. At most one Encoder process exists at any time.
SingleEncoder == Cardinality(AliveProcs) <= 1

\* The Encoder that the Conductor holds while live has died or has stopped
\* consuming its input.
Stalled ==
    /\ mode = "live"
    /\ procs[streamer_proc].st # "running"

\* C8. Stall recovery: once the Encoder held while live has died or hung,
\* the Conductor invokes recover_streamer, unless a sign-off has torn the
\* Encoder down before.
StallRecovery ==
    Stalled ~> \/ pc = "rec_kill"
               \/ pc = "offair_sleep" /\ streamer_proc = None

\* C9. Recovery discards all pending work: when recover_streamer returns,
\* the feed queue is empty, staging holds no fragment, and the Conductor
\* holds none either.
RecoveryDiscards ==
    pc = "rec_done" =>
        /\ feed_queue = <<>>
        /\ staging = {}
        /\ prebuffer = <<>>
        /\ cur = NoFrag

\* recover_streamer returns while the Feeder holds an item that it took
\* from the queue before the drain, after fragments had been written.
RecoveryDiscardsWitness ==
    /\ pc = "rec_done"
    /\ fpc = "feed"
    /\ lastFed > 0

\* C10. Recovery ends in a clean prebuffer state: when recover_streamer
\* returns, no Encoder is referenced, cumulative_ts is 0, the pre-buffer is
\* empty, the heartbeat is fresh and the audio FIFO is on disk.
CleanRecovery ==
    pc = "rec_done" =>
        /\ streamer_proc = None
        /\ cumulative_ts = 0
        /\ prebuffer = <<>>
        /\ feedAge = 0
        /\ fifo = "fifo"

\* C11. Recovery is idempotent: when recover_streamer returns for the second
\* time in succession (the Conductor has done nothing in between but run
\* into the exception that sent it back), the Encoder reference, the Music
\* Worker held, the feed queue, the staging directory, cumulative_ts, the
\* pre-buffer and the sequence counter are what they were when it returned
\* the first time; so is the presence of the audio FIFO when no mkfifo
\* failed in either run (the only fault in between is that exception).
RecoveryIdempotent ==
    pc = "rec_done" /\ recSnap # NoSnap =>
        /\ [PipelineState EXCEPT !.fifo = recSnap.fifo,
                                 !.faults = recSnap.faults] = recSnap
        /\ recSnap.fifo = "fifo" /\ faults = recSnap.faults + 1
              => fifo = recSnap.fifo

\* recover_streamer returns for the second time in succession, the first
\* run having killed an Encoder and left a Music Worker that was blocked.
RecoveryIdempotentWitness ==
    /\ pc = "rec_done"
    /\ recSnap # NoSnap
    /\ Len(procs) = 1
    /\ WorkerAlive(music_thread)

\* C12. Audio FIFO lifecycle: while an Encoder is running, a FIFO is at
\* audio_fifo_path.
FifoLifecycle ==
    \A p \in 1..Len(procs) : procs[p].st = "running" => fifo = "fifo"

\* C13. Back-pressure bound: staging never holds more than
\* MAX_STAGING_FILES fragment files.
BackPressureBound == count_staging_files <= MAX_STAGING_FILES

\* C14. Sequence counter: seq never goes down (no recovery, sign-off or
\* failed render resets it), every render attempt takes the next number
\* (in the model, until the MaxSeq numbers are used up), and every file
\* that appears in staging is named by that number, which is above the
\* name of every fragment rendered before in this run.
SequenceCounter ==
    /\ [](\A f \in staging \ StaleFiles : f <= seq)
    /\ [][seq' >= seq]_vars
    /\ [][RenderAttempt => seq' = seq + 1 \/ seq = MaxSeq]_vars
    /\ [][staging' \ staging # {}
            => seq' = seq + 1 /\ staging' \ staging = {seq'}]_vars

\* After the teardown of the first Encoder a fragment is pre-buffered whose
\* number continues the numbers used before the teardown; a render has
\* failed on the way.
SequenceCounterWitness ==
    /\ Len(procs) = 1
    /\ Len(prebuffer) = 2
    /\ prebuffer[1].seq > prebuffer_size
    /\ prebuffer[2].seq > prebuffer[1].seq + 1

\* The timeline is what it was before the render attempt: the PTS offset,
\* the pre-buffer, the feed queue and the files in staging.
TimelineUnchanged ==
    /\ cumulative_ts' = cumulative_ts
    /\ prebuffer' = prebuffer
    /\ feed_queue' = feed_queue
    /\ staging' = staging
    /\ cur' = cur

FeederCleanup ==
    /\ [][fpc = "feed" /\ fpc' # "feed"
            => /\ fitem.frag.seq \notin staging'
               /\ fpc' = "get" \/ pc' = "exited"]_vars
    /\ [][FeederStep
            => UNCHANGED <<procs, workers, music_thread, condVars>>]_vars

\* The Encoder died before anything was written to it; the Feeder has taken
\* the four flushed fragments one after the other, failed to write each,
\* deleted each, and waits for the next item.
FeederCleanupWitness ==
    /\ streamer_proc = 1
    /\ procs[1].st = "dead"
    /\ lastFed = 0
    /\ pc = "top"
    /\ fpc = "get"
    /\ feed_queue = <<>>
    /\ staging = {}

\* C17. Heartbeat semantics: every write of a fragment to an Encoder makes
\* the heartbeat fresh, and when the Feeder is done with an item that it
\* could not write the heartbeat is as old as it was.
HeartbeatSemantics ==
    /\ [][lastFed' # lastFed => feedAge' = 0]_vars
    /\ [][fpc = "feed" /\ fpc' # "feed" /\ lastFed' = lastFed
            => feedAge' = feedAge]_vars

\* The heartbeat had gone stale (the bumper clock, started at the same
\* time, still shows it) and a write of the Feeder has made it fresh.
HeartbeatSemanticsWitness ==
    /\ Len(delivered) = 2
    /\ lastFed = seq
    /\ fpc = "get"
    /\ feedAge = 0
    /\ bumperSet
    /\ bumperAge = MaxBumperAge

\* C18. Off-air re-enters prebuffer: once the sign-off teardown is done the
\* Conductor holds no Encoder reference, so that the main loop goes on in
\* prebuffer mode at sign-on.
OffAirPrebuffer == pc = "offair_sleep" => streamer_proc = None

\* C19. Off-air teardown deletes staging: once the sign-off teardown is
\* done, no fragment that this run has produced is in staging (what an
\* earlier run left there is not counted), in the pre-buffer or in the
\* feed queue.
OffAirDeletesStaging ==
    pc = "offair_sleep" =>
        /\ staging \subseteq StaleFiles
        /\ prebuffer = <<>>
        /\ feed_queue = <<>>

\* C20. The watchdog does not turn a disk-full pause into a restart: when
\* the main loop has paused for lack of disk space while live, after every
\* fragment rendered until then had been written to the Encoder, and the
\* Encoder is still running, recover_streamer is not invoked.
DiskPauseNoRestart ==
    ~(/\ pc = "rec_kill"
      /\ paused # NoPause
      /\ lastFed = paused
      /\ streamer_proc # None
      /\ procs[streamer_proc].st = "running")

\* C28. Broadcast window: for every hour h in 0..23 is_on_air is true iff
\* h >= 10 or h < 2, and a loop iteration goes into the off-air teardown
\* exactly when it starts at an hour in 2..9.
BroadcastWindow ==
    [][/\ \A h \in Hours : is_on_air(h) <=> (h >= 10 \/ h < 2)
       /\ cpc = "top" /\ cpc' # cpc =>
              (cpc' = "teardown" <=> (now \div Hour) \in 2..9)]_vars

\* An iteration that starts in the last hour of the off-air window goes into
\* the teardown.
BroadcastWindowWitness ==
    cpc = "teardown" /\ now \div Hour = 9

\* C29 as stated. Sign-on sleep: at every time at which wait_for_broadcast
\* computes the wait, the sleep is the minimal positive duration from that
\* time to the next 10:00.
SignOnSleepMinimalPositive ==
    LET \* The duration from t to the next 10:00:00 that is later than t.
        ToNextSignOn(t) ==
            IF t < 10 * Hour THEN 10 * Hour - t ELSE (10 * Hour + Day) - t
    IN  cpc = "sleeping" => Slept = ToNextSignOn(now)

\* C29. Sign-on sleep: at every time at which wait_for_broadcast computes the
\* wait, the sleep lasts until 10:00 of the same day if that time is before
\* 10:00, and there is no sleep if it is 10:00 or later.
SignOnSleep ==
    cpc = "sleeping" =>
        Slept = (IF now < 10 * Hour THEN 10 * Hour - now ELSE 0)

\* The wait is computed five seconds before 10:00 and the sleep is those
\* five seconds.
SignOnSleepWitness ==
    cpc = "sleeping" /\ now = 10 * Hour - 5 /\ Slept = 5

MusicWorkerStops ==
    stop_event ~> (wpc = "exited" /\ decoder # "running" /\ fifo_fd # "open")

\* C25. Audio FIFO continuity: from the moment the worker has opened the
\* FIFO until it exits, the FIFO is open; it is closed only by the exit.
FifoContinuity ==
    /\ wpc \in {"loop", "sleep", "track", "read", "write"} => fifo_fd = "open"
    /\ fifo_fd = "closed" => wpc = "exited"

\* The worker is copying a chunk to the FIFO after track changes, a
\* reshuffle, a daypart change, an empty-library sleep and the end of a
\* decoder.
FifoContinuityWitness ==
    /\ wpc = "write"
    /\ fifo_fd = "open"
    /\ {"track", "reshuffle", "daypart", "sleep", "eof"} \subseteq wseen

\* C26. Music Worker error policy: a broken pipe on the write to the FIFO
\* ends the worker, with the decoder killed; a decoder that fails or ends
\* early ends the track only, and the worker goes on to the next track with
\* the FIFO open.
MusicErrorPolicy ==
    [][/\ wpc = "write" /\ reader = "gone" /\ wpc' # wpc =>
              wpc' = "exited" /\ decoder' = "none" /\ fifo_fd' = "closed"
       /\ wpc = "read" /\ decoder = "eof" /\ ~stop_event /\ wpc' # wpc =>
              wpc' = "track" /\ decoder' = "none" /\ fifo_fd' = "open"
       /\ wpc = "track" /\ playlist > 0 /\ ~stop_event /\ ~new_daypart
              /\ wpc' # wpc =>
              wpc' = "read" /\ decoder' = "running"]_vars

\* A decoder ended, the worker went on to write a later track, and the
\* broken pipe on that write ended the worker.
MusicErrorPolicyWitness ==
    /\ {"eof", "broken"} \subseteq wseen
    /\ wpc = "exited"
    /\ decoder = "none"

\* C21. Main-loop exceptions never end the process: an exception in the loop
\* body goes into recover_streamer, which returns to the top of the loop
\* with no Encoder and an empty pre-buffer (also when a step of the recovery
\* fails), and the process exits in cleanup, the signal handler, only.
ExceptionsNeverExit ==
    [][/\ pc' = "exited" /\ pc # "exited" =>
              signals' > 0 /\ (signals' > signals \/ pc \in CleanupPcs)
       /\ pc' = "rec_kill" /\ pc # "rec_kill"
              /\ ~(pc = "queue" /\ signals' = signals) => ret' = "top"
       /\ pc = "rec_done" =>
              /\ streamer_proc = None
              /\ prebuffer = <<>>
              /\ cumulative_ts = 0
              /\ pc' \in {"rec_done", ret}]_vars

\* The recovery has been entered with a healthy Encoder, a fresh heartbeat,
\* room in the queue and no signal: from the exception handler.
ExceptionsNeverExitWitness ==
    /\ pc = "rec_kill"
    /\ ret = "top"
    /\ faults = 1
    /\ signals = 0
    /\ streamer_proc # None
    /\ procs[streamer_proc].st = "running"
    /\ feedAge = 0
    /\ Len(feed_queue) < QueueMaxsize

\* C22. Clean shutdown terminates: after SIGTERM or SIGINT, in whatever
\* state of the pipeline, cleanup runs to its end and the process exits,
\* with the Encoder terminated and no *.ts file left in staging.
ShutdownTerminates ==
    (signals > 0) ~>
        /\ pc = "exited"
        /\ staging = {}
        /\ streamer_proc # None => ~Alive(streamer_proc)

\* cleanup calls streamer_proc.stdin.close() on an Encoder that is alive.
StdinClosed ==
    /\ signals' > signals \/ pc = "cl_put"
    /\ pc' \in {"exited", "rec_kill", "cl_term"}
    /\ streamer_proc # None
    /\ Alive(streamer_proc)

\* C23. Encoder input pipe ownership: only the Feeder writes to the pipe of
\* an Encoder, and the Conductor never closes the pipe of an Encoder while
\* the Feeder holds an item to write to it.
PipeOwnership ==
    [][/\ lastFed' # lastFed => fpc = "feed"
       /\ StdinClosed => ~(fpc = "feed" /\ fitem.proc = streamer_proc)]_vars

\* C27. Bumper cadence: with a configured interval of I minutes, the render
\* of a bumper starts at least I * 60 seconds of wall time after the end of
\* the render of the bumper before it, whatever render failures,
\* recoveries and off-air periods lie between the two.
BumperCadence ==
    bgap # NoGap => bgap >= min_interval_minutes * 60

\* Two bumpers have been rendered with a failed render, a recovery and an
\* off-air period between them.
BumperCadenceWitness ==
    /\ bgap # NoGap
    /\ bbetween = {"fail", "recovery", "offair"}

\* C31 as stated. Every selection returns what get_daypart_clips would
\* return without its cache.
ClipsCacheTransparent ==
    [][kpc = "top" /\ kpc' = "got" =>
          active_clips' =
              Uncached(get_current_daypart(ClipDayparts, clock_hour))]_vars

\* C31. Daypart clip routing with cache: the first selection in a daypart
\* (the first of all, and every one whose daypart is not that of the
\* selection before) returns the uncached result, the scan of the override
\* directory if the daypart has one and the scan is not empty and the
\* default clips otherwise; every later selection in the same daypart
\* returns the same set again, whatever has become of the directory.
ClipsCachePerDaypart ==
    [][kpc = "top" /\ kpc' = "got" =>
          LET dp == get_current_daypart(ClipDayparts, clock_hour)
          IN active_clips' =
                 IF dp # prev_dp THEN Uncached(dp) ELSE active_clips]_vars

\* A selection after a daypart boundary has returned the clips of an
\* override directory, after an earlier one kept the clips of its daypart
\* although the directory had changed.
ClipsCachePerDaypartWitness ==
    /\ kpc = "got"
    /\ {"boundary", "kept", "override", "empty"} \subseteq kseen
    /\ prev_dp # None
    /\ active_clips = override_dirs[prev_dp]
    /\ active_clips # clip_files

\* C37. Non-empty clip selection: the clip set that get_daypart_clips hands
\* to pick_clip is never empty, and neither is the set held in the cache:
\* the loop is entered only with clips in clips_dir, and an override scan
\* that is empty is neither returned nor cached. random.choice never fails.
ClipsNonEmpty ==
    /\ kpc = "got" => active_clips # {}
    /\ clips_cache.filled => clips_cache.files # {}
    /\ kpc # "error"
    /\ kpc \in {"top", "got"} => clip_files # {}

\* The daypart of the selection has an override directory whose scan is
\* empty, and the default clips have been returned.
ClipsNonEmptyWitness ==
    /\ kpc = "got"
    /\ prev_dp # None
    /\ prev_dp \in clips_dayparts
    /\ override_dirs[prev_dp] = {}
    /\ active_clips = clip_files
    /\ "boundary" \in kseen

\* C38. Clip window bounds: pick_clip returns a seek start s >= 0 and a use
\* duration u with 0 < u <= max_dur and s + u <= clip_dur, and needs_loop
\* exactly when clip_dur <= the drawn duration, in which case s = 0 and
\* u = clip_dur.
ClipWindowBounds ==
    ppc = "returned" =>
        /\ picked.start >= 0
        /\ 0 < picked.use_dur /\ picked.use_dur <= max_dur
        /\ picked.start + picked.use_dur <= clip_dur
        /\ picked.needs_loop <=> clip_dur <= picked.target
        /\ picked.needs_loop => picked.start = 0 /\ picked.use_dur = clip_dur

\* A clip shorter than the drawn duration has been picked whole, with
\* bounds that leave the draw a choice.
ClipWindowBoundsWitness ==
    /\ ppc = "returned"
    /\ picked.needs_loop
    /\ clip_dur < picked.target
    /\ min_dur < max_dur

\* C32. Recovery step order: the Encoder is killed first and its handle
\* dropped; then the Music Worker is told to stop and joined; after the
\* pause the feed queue is drained; then every staging file is deleted;
\* then the FIFO is deleted and created again; and only then are
\* cumulative_ts, the pre-buffer and the heartbeat reset. No step is taken
\* out of its turn: the Conductor touches the queue, the staging files, the
\* FIFO and the three values nowhere else, also when mkfifo fails.
RecoveryStepOrder ==
    /\ [](/\ Reached("rs_stop") =>
                /\ streamer_proc = None
                /\ \A p \in 1..Len(procs) : procs[p].st \in {"dead", "killed"}
          /\ Reached("rs_sweep") => feed_queue = <<>>
          /\ Reached("rs_unlink") => staging = {}
          /\ pc = "rs_mkfifo" => fifo = "missing"
          /\ ~Reached("rs_done") => cumulative_ts = PtsOf(seq + 1)
          /\ pc = "rs_done" =>
                cumulative_ts = 0 /\ prebuffer = <<>> /\ feedAge = 0)
    /\ [][/\ pc' # pc => RecoverPos(pc') > RecoverPos(pc)
          /\ (\E w \in 1..Len(workers) : workers'[w].stop /\ ~workers[w].stop)
                => pc = "rs_stop"
          /\ feed_queue' # feed_queue /\ fpc' = fpc => pc = "rs_drain"
          /\ staging' # staging /\ fpc' = fpc =>
                pc \in {"rs_drain", "rs_sweep"}
          /\ fifo' # fifo => pc \in {"rs_unlink", "rs_mkfifo", "rs_except"}
          /\ \/ cumulative_ts' # cumulative_ts
             \/ prebuffer' # prebuffer
             \/ feedAge' # feedAge /\ fpc' = fpc
             => pc = "rs_reset"]_vars

\* A recovery has returned that found the queue full of pending items and
\* the Feeder holding one more, whose mkfifo failed twice, and whose Music
\* Worker was told to stop.
RecoveryStepOrderWitness ==
    /\ pc = "rs_done"
    /\ seq = MaxPending + 1
    /\ fpc = "feed"
    /\ fifo = "missing"
    /\ workers[1].stop

\* C33. One fragment per iteration: in an iteration in which a bumper was
\* due and has been rendered (the Conductor is past the bumper branch and
\* the bumper clock has just been restarted), no further fragment file is
\* produced: the bumper is the fragment of the iteration.
OneFragmentPerIteration ==
    [][pc = "select" /\ bumperSet /\ bumperAge = 0 =>
          staging' \subseteq staging]_vars

\* C34. Encoder-handle binding: an item is put on the queue with the handle
\* that the Conductor holds at that moment, which is the Encoder started
\* last; the items keep their handle in the queue and the Feeder takes them
\* as they are; and a fragment is written only while the Encoder of its own
\* item is running. An item bound to an Encoder that was torn down is bound
\* to one that is dead or has been killed, so its fragment is written to
\* no Encoder started afterwards.
HandleBinding ==
    /\ [](/\ \A i \in 1..Len(feed_queue) :
                feed_queue[i] # NoItem =>
                    /\ feed_queue[i].proc \in 1..Len(procs)
                    /\ feed_queue[i].proc # Len(procs) =>
                          procs[feed_queue[i].proc].st \in {"dead", "killed"}
          /\ fpc = "feed" =>
                /\ fitem.proc \in 1..Len(procs)
                /\ fitem.proc # Len(procs) =>
                      procs[fitem.proc].st \in {"dead", "killed"})
    /\ [][/\ Len(feed_queue') > Len(feed_queue)
                /\ feed_queue'[Len(feed_queue')] # NoItem =>
                    /\ feed_queue'[Len(feed_queue')].proc = streamer_proc
                    /\ streamer_proc = Len(procs)
                    /\ SubSeq(feed_queue', 1, Len(feed_queue)) = feed_queue
          /\ fpc = "get" /\ fpc' = "feed" => fitem' = Head(feed_queue)
          /\ lastFed' # lastFed =>
                /\ fpc = "feed"
                /\ lastFed' = fitem.frag.seq
                /\ procs[fitem.proc].st = "running"
                /\ fitem.proc = streamer_proc]_vars

\* The Feeder holds a fragment that was queued for an Encoder torn down
\* since, its file still in staging, while the Encoder started after the
\* teardown is running.
HandleBindingWitness ==
    /\ fpc = "feed"
    /\ fitem.frag.seq \in staging
    /\ streamer_proc # None
    /\ fitem.proc # streamer_proc
    /\ procs[streamer_proc].st = "running"

\* C36. Watchdog is inactive in prebuffer: the watchdog test at the top of
\* an iteration (and after the sign-on sleep) starts a recovery only with an
\* Encoder referenced and a heartbeat older than WATCHDOG_TIMEOUT, so never
\* in prebuffer mode, however old the heartbeat; and the live transition
\* resets the heartbeat when it starts the Encoder, before it puts the first
\* pre-buffered fragment on the queue.
WatchdogOnlyLive ==
    /\ [][(pc \in {"top", "offair_sleep"} /\ pc' = "rec_kill"
               /\ signals' = signals) =>
             (streamer_proc # None /\ feedAge > WATCHDOG_TIMEOUT)]_vars
    /\ [][pc = "flush_start" /\ pc' # pc =>
             /\ pc' = "flush_put"
             /\ streamer_proc = None /\ streamer_proc' # None
             /\ feedAge' = 0
             /\ feed_queue' = feed_queue
             /\ prebuffer' = prebuffer]_vars
    /\ [](pc = "flush_put" /\ flushIdx = 1 => feedAge = 0)

\* In prebuffer mode, with fragments in the pre-buffer and no fault so far,
\* an iteration has passed the watchdog test with a heartbeat older than
\* WATCHDOG_TIMEOUT.
WatchdogOnlyLiveWitness ==
    /\ pc = "guards"
    /\ streamer_proc = None
    /\ feedAge > WATCHDOG_TIMEOUT
    /\ prebuffer # <<>>
    /\ faults = 0
    /\ staging \cap StaleFiles = {}

\* C35. No staging leak: with the Conductor, the Feeder and the Music Workers
\* scheduled fairly, the file of every fragment rendered is deleted in the
\* end, by the Feeder, by a recovery or by the off-air teardown. Two cases are
\* left aside, so that what remains is the pipeline running on its own:
\* fragments waiting when the sequence numbers of the model are used up, and
\* runs in which a shutdown signal has been delivered.
NoStagingLeak ==
    \A n \in 1..MaxSeq :
        (n \in staging) ~> (n \notin staging \/ seq = MaxSeq \/ signals > 0)
====
